---- MODULE Spec2Model ----
\* Transaction lifecycle of cosmpy/clients/ledger.py (CosmosLedger): the
\* workflows deploy_contract, instantiate_contract, execute_contract and
\* send_funds, with the steps they share (generate_tx, query_account_data,
\* sign_tx, broadcast_tx, get_tx, Retrier.call_with_retry) and the extraction
\* of chain-assigned identifiers from the confirmed transaction's raw log.
\* The operations that stand alone (Retrier.call_with_retry on its own, the
\* balance and state queries, refill_wealth_from_faucet, the constructor with
\* check_availability, generate_tx for several signers) each have their own
\* variable, a record of the call's frame, and run under SpecCalls.
\*
\* One action is taken per network round trip (auth_client.Account,
\* tx_client.BroadcastTx, tx_client.GetTx); the node's answer to each is an
\* input drawn from a small set: a response, nothing (None) or an exception.
\* An optional value (Python's None or a value) is a sequence of length 0 or 1.
EXTENDS Integers, Sequences, FiniteSets, TLC

\* ---------------------------------------------------------------- bounds

\* Largest value of each configured retry budget.
MaxRetries == 2

\* Largest value of n_total_msg_retries where a query is called on its own.
MaxQueryRetries == 4

\* ------------------------------------------------------------- constants

CLIENT_CODE_MESSAGE_SUCCESSFUL == 0

\* The default of __init__'s n_sending_retries.
DefaultSendingRetries == 1

\* The default of __init__'s n_total_msg_retries.
DefaultTotalMsgRetries == 1

\* The two processes that may run a workflow; the signer (crypto) is shared.
Procs == {1, 2}

Workflows == {"deploy_contract", "instantiate_contract", "execute_contract", "send_funds"}

\* Values the node may report for the signer's account.
AccountNumbers == {7}
SequenceNumbers == {3, 4}

None == <<>>
Some(x) == <<x>>

\* ------------------------------------------------------------ exceptions

\* type: the Python class; why: the fixed part of the message; log: the raw
\* log the message carries; cause: the class of __cause__ ("None" if unset).
Exc(type, why, log, cause) == [type |-> type, why |-> why, log |-> log, cause |-> cause]

NoExc == Exc("None", "", "", "None")

TransportError == Exc("TransportError", "", "", "None")

\* ---------------------------------------------------- raw logs as trees

\* json.loads(raw_log): a tree of dicts, lists and scalar leaves, or a text
\* that is no JSON (t = "bad").  kids holds a list's items (k = "") or a
\* dict's items in insertion order (k = the key).
Str(s) == [t |-> "str", v |-> s, kids |-> <<>>]
Num(s) == [t |-> "num", v |-> s, kids |-> <<>>]
Lst(items) == [t |-> "list", v |-> "", kids |-> [i \in 1..Len(items) |-> [k |-> "", n |-> items[i]]]]
Dct(items) == [t |-> "dict", v |-> "", kids |-> items]
KV(k, n) == [k |-> k, n |-> n]
NotJson == [t |-> "bad", v |-> "out of gas", kids |-> <<>>]

Attr(key, value) == Dct(<<KV("key", Str(key)), KV("value", value)>>)
Event(type, attrs) == Dct(<<KV("type", Str(type)), KV("attributes", Lst(attrs))>>)
Log(events) == Lst(<<Dct(<<KV("events", Lst(events))>>)>>)

GoodAddress == "fetch1qr8ysysnfxmqzu7cu7cq7dsq5g2r0kvkg5e2wl"

LogStoreCode == Log(<<Event("message", <<Attr("action", Str("store-code"))>>),
                      Event("store_code", <<Attr("code_id", Str("42"))>>)>>)
LogInstantiate == Log(<<Event("instantiate", <<Attr("_contract_address", Str(GoodAddress)),
                                               Attr("code_id", Str("42"))>>)>>)
LogPlain == Log(<<Event("message", <<Attr("action", Str("send"))>>)>>)
LogBadValue == Log(<<Event("store_code", <<Attr("code_id", Str("abc"))>>),
                     Event("instantiate", <<Attr("_contract_address", Str("cosmos1abc"))>>)>>)
LogNoValueKey == Log(<<Event("wasm", <<Dct(<<KV("note", Str("code_id"))>>),
                                       Dct(<<KV("note", Str("contract_address"))>>)>>)>>)
LogScalar == Num("42")

RawLogs == {NotJson, LogStoreCode, LogInstantiate, LogPlain, LogBadValue, LogNoValueKey, LogScalar}

\* ------------------------------------------------------------- patterns

CODE_ID_RE == "code_id"
CONTRACT_ADDRESS_RE == "contract_address"

\* re_pattern.match(v) for the patterns ".*code_id.*" and
\* ".*contract_address.*": v contains the marker.  Tabulated over the strings
\* that occur in RawLogs.
re_match(re_pattern, v) ==
    CASE re_pattern = CODE_ID_RE -> v \in {"code_id", "store_code_id"}
      [] re_pattern = CONTRACT_ADDRESS_RE -> v \in {"contract_address", "_contract_address"}
      [] OTHER -> FALSE

\* is_valid_crypto_address(address) with the default prefix "[a-z]+":
\* lower-case letters followed by exactly 39 characters of [0-9a-z].
\* Tabulated over the strings that occur in RawLogs.
is_valid_crypto_address(address) == address = GoodAddress

\* int(x) for the scalar leaves that occur in RawLogs: its value, or None
\* where int raises ValueError.
int(x) ==
    CASE x = "42" -> Some(42)
      [] OTHER -> None

\* ------------------------------------------------------- ResultExtractor

RECURSIVE _find_item(_, _), find_in_list(_, _, _), find_in_dict(_, _, _)

\* for item in obj: the first item, from the i-th on, in which a dict matches.
find_in_list(obj, i, re_pattern) ==
    IF i > Len(obj.kids) THEN None
    ELSE LET found == _find_item(obj.kids[i].n, re_pattern)
         IN  IF found # None THEN found ELSE find_in_list(obj, i + 1, re_pattern)

\* As find_in_dict, but with the pattern matched against the key.
RECURSIVE find_in_dict_keys(_, _, _)
find_in_dict_keys(obj, i, re_pattern) ==
    IF i > Len(obj.kids) THEN None
    ELSE LET v == obj.kids[i].n
         IN  IF re_match(re_pattern, obj.kids[i].k) THEN Some(obj)
             ELSE LET found == _find_item(v, re_pattern)
                  IN  IF found # None THEN found
                      ELSE find_in_dict_keys(obj, i + 1, re_pattern)

\* for _, v in obj.items(): obj itself when v is a matching string, else the
\* first match below v, from the i-th item on.
find_in_dict(obj, i, re_pattern) ==
    IF i > Len(obj.kids) THEN None
    ELSE LET v == obj.kids[i].n
         IN  IF v.t = "str" /\ re_match(re_pattern, v.v) THEN Some(obj)
             ELSE LET found == _find_item(v, re_pattern)
                  IN  IF found # None THEN found ELSE find_in_dict(obj, i + 1, re_pattern)

_find_item(obj, re_pattern) ==
    CASE obj.t = "list" -> find_in_list(obj, 1, re_pattern)
      [] obj.t = "dict" -> find_in_dict(obj, 1, re_pattern)
      [] OTHER -> None

\* d[key] of a dict node: the last item stored under key, None if absent.
RECURSIVE getitem(_, _, _)
getitem(d, key, i) ==
    IF i = 0 THEN None
    ELSE IF d.kids[i].k = key THEN Some(d.kids[i].n) ELSE getitem(d, key, i - 1)

Ok(val) == [ok |-> TRUE, val |-> Some(val), exc |-> NoExc]
Err(type) == [ok |-> FALSE, val |-> None, exc |-> Exc(type, "", "", "None")]

\* get_code_id(response): the integer under "value" of the first dict that
\* holds a string matching CODE_ID_RE, or the exception raised on the way.
get_code_id(response) ==
    LET raw_log == response.raw_log
        res_dict == _find_item(raw_log, CODE_ID_RE)
        value == getitem(res_dict[1], "value", Len(res_dict[1].kids))
    IN  CASE raw_log.t = "bad" -> Err("JSONDecodeError")
          [] raw_log.t # "bad" /\ res_dict = None -> Err("AssertionError")
          [] raw_log.t # "bad" /\ res_dict # None /\ value = None -> Err("KeyError")
          [] OTHER ->
               IF value[1].t \notin {"str", "num"} THEN Err("TypeError")
               ELSE IF int(value[1].v) = None THEN Err("ValueError")
               ELSE Ok(int(value[1].v)[1])

\* get_contract_address(response): the string under "value" of the first dict
\* that holds a string matching CONTRACT_ADDRESS_RE, asserted to be an address.
get_contract_address(response) ==
    LET raw_log == response.raw_log
        res_dict == _find_item(raw_log, CONTRACT_ADDRESS_RE)
        value == getitem(res_dict[1], "value", Len(res_dict[1].kids))
    IN  CASE raw_log.t = "bad" -> Err("JSONDecodeError")
          [] raw_log.t # "bad" /\ res_dict = None -> Err("AssertionError")
          [] raw_log.t # "bad" /\ res_dict # None /\ value = None -> Err("KeyError")
          [] OTHER ->
               IF value[1].t = "str" /\ is_valid_crypto_address(value[1].v)
               THEN Ok(value[1].v)
               ELSE Err("AssertionError")

\* ------------------------------------------------------------------ state

VARIABLES
    n_total_msg_retries,     \* self.n_total_msg_retries
    n_sending_retries,       \* self.n_sending_retries
    n_get_response_retries,  \* self.n_get_response_retries
    account_number,          \* crypto.account_number of the signer (optional)
    wf,                      \* per process: the workflow it runs
    pc,                      \* per process: where its workflow stands
    attempt,                 \* the workflow's outer loop counter
    q_attempt,               \* query_account_data's loop counter
    r_attempt,               \* Retrier.call_with_retry's loop counter
    r_last_exception,        \* Retrier.call_with_retry's last_exception
    tx,                      \* the transaction of the current attempt (optional)
    broad_tx_resp,           \* broadcast_tx's acknowledgment for tx (optional)
    polls,                   \* GetTx calls made for tx
    res,                     \* the workflow's res (optional GetTxResponse)
    code_id,                 \* deploy_contract's code_id (optional)
    contract_address,        \* instantiate_contract's contract_address (optional)
    last_exception,          \* the workflow's last_exception
    outcome,                 \* what the invocation returned or raised
    ended,                   \* how each finished attempt ended, in order
    calls,                   \* how often each method was entered
    slept_failed             \* sleeps of msg_failed_retry_interval

\* The frames of the operations that stand alone (pc = "idle": not called).
VARIABLES
    retrier,                 \* a Retrier and its call_with_retry
    query,                   \* get_balance, get_balances, query_contract_state
                             \* or query_account_data, called on its own
    faucet,                  \* refill_wealth_from_faucet
    node,                    \* CosmosLedger(...) and its check_availability
    build,                   \* generate_tx, called with lists of signers
    applied                  \* _find_item or is_valid_crypto_address, applied
                             \* to one argument list

frames == <<retrier, query, faucet, node, build, applied>>

config == <<n_total_msg_retries, n_sending_retries, n_get_response_retries>>

vars == <<n_total_msg_retries, n_sending_retries, n_get_response_retries,
          account_number, wf, pc, attempt, q_attempt, r_attempt, r_last_exception,
          tx, broad_tx_resp, polls, res, code_id, contract_address, last_exception,
          outcome, ended, calls, slept_failed, retrier, query, faucet, node, build,
          applied>>

NoRet == [code_id |-> None, contract_address |-> None, res |-> None, err_code |-> None]
Running == [kind |-> "running", exc |-> NoExc, ret |-> NoRet]
Raised(e) == [kind |-> "raised", exc |-> e, ret |-> NoRet]
Returned(ret) == [kind |-> "returned", exc |-> NoExc, ret |-> ret]

NoCalls == [generate_tx |-> 0, sign_tx |-> 0, broadcast_tx |-> 0, get_tx |-> 0]

\* No process has entered its workflow.
InitProcs(w) ==
    /\ wf = w
    /\ pc = [p \in Procs |-> IF w[p] = "none" THEN "idle" ELSE "ready"]
    /\ attempt = [p \in Procs |-> 0]
    /\ q_attempt = [p \in Procs |-> 0]
    /\ r_attempt = [p \in Procs |-> 0]
    /\ r_last_exception = [p \in Procs |-> NoExc]
    /\ tx = [p \in Procs |-> None]
    /\ broad_tx_resp = [p \in Procs |-> None]
    /\ polls = [p \in Procs |-> 0]
    /\ res = [p \in Procs |-> None]
    /\ code_id = [p \in Procs |-> None]
    /\ contract_address = [p \in Procs |-> None]
    /\ last_exception = [p \in Procs |-> NoExc]
    /\ outcome = [p \in Procs |-> Running]
    /\ ended = [p \in Procs |-> <<>>]
    /\ calls = [p \in Procs |-> NoCalls]
    /\ slept_failed = [p \in Procs |-> 0]

\* CosmosLedger.__init__ stores the budgets it is given; the signer's account
\* number is unset or was stored by an earlier workflow.  w[p] is the workflow
\* process p is about to call ("none": it calls nothing).  n_sending_retries
\* is read by execute_contract alone and keeps its default when no process
\* calls that.
InitClient(w) ==
    /\ n_total_msg_retries \in 0..MaxRetries
    /\ n_sending_retries \in IF \E p \in Procs : w[p] = "execute_contract"
                             THEN 0..MaxRetries ELSE {DefaultSendingRetries}
    /\ n_get_response_retries \in 0..MaxRetries
    /\ account_number \in {None} \cup {Some(n) : n \in AccountNumbers}
    /\ InitProcs(w)

\* What a single call returned or raised.
Pending == [kind |-> "running", exc |-> NoExc, val |-> None]
Thrown(e) == [kind |-> "raised", exc |-> e, val |-> None]
Ret(v) == [kind |-> "returned", exc |-> NoExc, val |-> Some(v)]

\* No Retrier of its own is at work.
retrier_idle ==
    [pc |-> "idle", n_retries |-> 0, exception_type |-> "BroadcastException",
     attempt |-> 0, last_exception |-> NoExc, response |-> None,
     called |-> 0, slept |-> 0, history |-> <<>>, outcome |-> Pending]

\* No query is called on its own.
query_idle ==
    [pc |-> "idle", fn |-> "none", n_retries |-> None, attempt |-> 0,
     last_exception |-> NoExc, res |-> None, called |-> 0, slept_retry |-> 0, slept_failed |-> 0,
     history |-> <<>>, outcome |-> Pending]

\* refill_wealth_from_faucet is not called.  left: for each address the loop
\* is through with, whether the balance was seen at the threshold, and after
\* how many attempts.
faucet_idle ==
    [pc |-> "idle", addresses |-> <<>>, amount |-> None, i |-> 1, attempt |-> 0,
     polled |-> 0, claimed |-> 0, slept_faucet |-> 0, left |-> <<>>, outcome |-> Pending]

\* No client is being constructed.  created: the clients __init__ has made;
\* round_trips: the calls made to the node.
node_idle ==
    [pc |-> "idle", chain_id |-> "", rest_node_address |-> None, rpc_node_address |-> None,
     secure_channel |-> FALSE, rest_client |-> None, rpc_client |-> None, created |-> {},
     round_trips |-> 0, reply |-> [kind |-> "none", network |-> ""],
     constructed |-> Pending, outcome |-> Pending]

\* generate_tx is not called on its own.  queried: the addresses whose
\* account was asked for, in order.
build_idle ==
    [pc |-> "idle", packed_msgs |-> <<>>, from_addresses |-> <<>>, pub_keys |-> <<>>,
     accounts |-> <<>>, signer_infos |-> <<>>, queried |-> <<>>, outcome |-> Pending]

\* No function is applied on its own.  obj is a tree as the raw logs are;
\* address is a sequence of characters.
applied_idle ==
    [pc |-> "idle", fn |-> "none", obj |-> Str(""), re_pattern |-> "",
     address |-> <<>>, prefix |-> "", found |-> None, valid |-> FALSE]

CallsIdle ==
    /\ applied = applied_idle
    /\ retrier = retrier_idle
    /\ query = query_idle
    /\ faucet = faucet_idle
    /\ node = node_idle
    /\ build = build_idle

\* One caller, of any workflow.
Init ==
    /\ \E w \in Workflows : InitClient([p \in Procs |-> IF p = 1 THEN w ELSE "none"])
    /\ CallsIdle

\* ------------------------------------------------------ the node's answers

\* auth_client.Account: raises, returns nothing, or returns an account that
\* is a BaseAccount (base) or of another type.
AccountReplies ==
    {[kind |-> k, base |-> FALSE, account_number |-> 0, sequence |-> 0] :
        k \in {"raise", "none", "response"}}
    \cup [kind : {"response"}, base : {TRUE},
          account_number : AccountNumbers, sequence : SequenceNumbers]

\* tx_client.BroadcastTx in BROADCAST_MODE_SYNC: raises, returns nothing, or
\* acknowledges with a response code and a raw log.
BroadcastReplies ==
    {[kind |-> k, code |-> 0, raw_log |-> ""] : k \in {"raise", "none"}}
    \cup {[kind |-> "response", code |-> 0, raw_log |-> "[]"],
          [kind |-> "response", code |-> 32, raw_log |-> "account sequence mismatch"]}

\* tx_client.GetTx: raises, returns nothing, or returns the transaction's
\* record with its response code and raw log.
GetTxReplies ==
    {[kind |-> k, code |-> 0, raw_log |-> NotJson] : k \in {"raise", "none"}}
    \cup [kind : {"response"}, code : {0}, raw_log : RawLogs]
    \cup [kind : {"response"}, code : {5}, raw_log : {NotJson, LogPlain}]

\* ----------------------------------------------------------- code, by part

\* Variant: the signer info carries a remembered sequence, not the queried one.
_get_signer_info_stale(from_acc, pub_key) ==
    [public_key |-> pub_key, mode |-> "SIGN_MODE_DIRECT", sequence |-> 3]

\* _get_signer_info(from_acc, pub_key)
_get_signer_info(from_acc, pub_key) ==
    [public_key |-> pub_key, mode |-> "SIGN_MODE_DIRECT", sequence |-> from_acc.sequence]

\* query_account_data after its loop was left by break: the account, or the
\* exception raised.
query_account_data_result(reply) ==
    CASE reply.kind = "none" ->
           [ok |-> FALSE, val |-> None,
            exc |-> Exc("BroadcastException",
                        "Getting account data failed after multiple attempts", "", "None")]
      [] reply.kind # "none" /\ ~reply.base ->
           [ok |-> FALSE, val |-> None, exc |-> Exc("TypeError", "Unexpected account type", "", "None")]
      [] OTHER ->
           Ok([account_number |-> reply.account_number, sequence |-> reply.sequence])

\* Variant: the loop admits one pass more than n_retries.
Retrier_continues_inclusive(n_retries, r) == r <= n_retries

\* Retrier.call_with_retry: while attempt < self.n_retries
Retrier_continues(n_retries, r) == r < n_retries

\* Retrier.call_with_retry: raise self.exception_type(...) from last_exception
Retrier_exhausted(call_name, last) ==
    Exc("BroadcastException", call_name, "", last.type)

\* Variant: broadcast_tx does not look at the acknowledgment's code.
broadcast_rejected_never(ack) == FALSE

\* broadcast_tx: the acknowledgment's code is checked before get_tx is called.
broadcast_rejected(ack) == ack.code # CLIENT_CODE_MESSAGE_SUCCESSFUL

\* Variants of the except clauses: deploy_contract also takes a parse failure;
\* instantiate_contract takes BroadcastException alone, or a failed assertion
\* too; send_funds swallows BroadcastException; execute_contract takes any
\* exception.
deploy_contract_except_parse(e) == e.type \in {"BroadcastException", "JSONDecodeError"}
instantiate_contract_except_broadcast_only(e) == e.type = "BroadcastException"
instantiate_contract_except_assertion(e) ==
    e.type \in {"BroadcastException", "JSONDecodeError", "AssertionError"}
send_funds_except_broadcast(e) == e.type = "BroadcastException"
execute_contract_except_exception(e) == TRUE

\* The except clauses around each workflow's attempt.
deploy_contract_except(e) == e.type = "BroadcastException"
instantiate_contract_except(e) == e.type \in {"BroadcastException", "JSONDecodeError"}
execute_contract_except(e) == e.type = "BroadcastException"
send_funds_except(e) == FALSE

Catches(w, e) ==
    CASE w = "deploy_contract" -> deploy_contract_except(e)
      [] w = "instantiate_contract" -> instantiate_contract_except(e)
      [] w = "execute_contract" -> execute_contract_except(e)
      [] OTHER -> send_funds_except(e)

\* Variant: deploy_contract's loop runs once more than its budget.
deploy_contract_while_off_by_one(id, a, n) == id = None /\ a <= n

\* The condition of each workflow's outer while loop (send_funds has none).
deploy_contract_while(id, a, n) == id = None /\ a < n
instantiate_contract_while(addr, a, n) == addr = None /\ a < n
execute_contract_while(a, n) == a < n

LoopCondition(p) ==
    CASE wf[p] = "deploy_contract" ->
           deploy_contract_while(code_id[p], attempt[p], n_total_msg_retries)
      [] wf[p] = "instantiate_contract" ->
           instantiate_contract_while(contract_address[p], attempt[p], n_total_msg_retries)
      [] wf[p] = "execute_contract" ->
           execute_contract_while(attempt[p], n_sending_retries)
      [] OTHER -> FALSE

\* Variant: execute_contract raises on a non-zero response code.
execute_contract_return_raises(r, last) ==
    IF r = None \/ r[1].code # 0
    THEN Raised(Exc("BroadcastException",
                    "Failed to execute contract after multiple attempts", "", last.type))
    ELSE Returned([NoRet EXCEPT !.res = r, !.err_code = Some(r[1].code)])

\* What each workflow does after its loop: raise or return.
deploy_contract_return(id, r, last) ==
    IF id = None \/ r = None
    THEN Raised(Exc("BroadcastException",
                    "Failed to deploy contract code after multiple attempts", "", "None"))
    ELSE Returned([NoRet EXCEPT !.code_id = id, !.res = r])

instantiate_contract_return(addr, r, last) ==
    IF addr = None \/ r = None
    THEN Raised(Exc("BroadcastException",
                    "Failed to init contract after multiple attempts", "", "None"))
    ELSE Returned([NoRet EXCEPT !.contract_address = addr, !.res = r])

execute_contract_return(r, last) ==
    IF r = None
    THEN Raised(Exc("BroadcastException",
                    "Failed to execute contract after multiple attempts", "", last.type))
    ELSE Returned([NoRet EXCEPT !.res = r, !.err_code = Some(r[1].code)])

send_funds_return(r) == Returned([NoRet EXCEPT !.res = r])

AfterLoop(p) ==
    CASE wf[p] = "deploy_contract" ->
           deploy_contract_return(code_id[p], res[p], last_exception[p])
      [] wf[p] = "instantiate_contract" ->
           instantiate_contract_return(contract_address[p], res[p], last_exception[p])
      [] wf[p] = "execute_contract" ->
           execute_contract_return(res[p], last_exception[p])
      [] OTHER -> Raised(last_exception[p])

\* How an attempt ended: the hash of its transaction (None if none was built),
\* its acknowledgment (None if none came) and the exception that ended it
\* (NoExc if none).
Summary(t, ack, e) ==
    [txhash |-> IF t = None THEN None ELSE Some(t[1].hash), ack |-> ack, exc |-> e]

\* Exception e leaves the attempt of process p: the workflow's except clause
\* takes it (and the failed interval is slept) or it reaches the caller.
Raise(p, e, summary) ==
    /\ ended' = [ended EXCEPT ![p] = Append(@, summary)]
    /\ IF Catches(wf[p], e)
       THEN /\ pc' = [pc EXCEPT ![p] = "outer_loop"]
            /\ last_exception' = [last_exception EXCEPT ![p] = e]
            /\ slept_failed' = [slept_failed EXCEPT ![p] = @ + 1]
            /\ outcome' = outcome
       ELSE /\ pc' = [pc EXCEPT ![p] = "done"]
            /\ outcome' = [outcome EXCEPT ![p] = Raised(e)]
            /\ UNCHANGED <<last_exception, slept_failed>>

\* ---------------------------------------------------------------- actions

\* A caller invokes a workflow with a single signer.
Call_deploy_contract(p) ==
    /\ pc[p] = "ready"
    /\ wf[p] = "deploy_contract"
    /\ wf' = wf
    /\ pc' = [pc EXCEPT ![p] = "outer_loop"]
    /\ UNCHANGED <<config, frames, account_number, attempt, q_attempt, r_attempt, r_last_exception,
                   tx, broad_tx_resp, polls, res, code_id, contract_address,
                   last_exception, outcome, ended, calls, slept_failed>>

Call_instantiate_contract(p) ==
    /\ pc[p] = "ready"
    /\ wf[p] = "instantiate_contract"
    /\ wf' = wf
    /\ pc' = [pc EXCEPT ![p] = "outer_loop"]
    /\ UNCHANGED <<config, frames, account_number, attempt, q_attempt, r_attempt, r_last_exception,
                   tx, broad_tx_resp, polls, res, code_id, contract_address,
                   last_exception, outcome, ended, calls, slept_failed>>

Call_execute_contract(p) ==
    /\ pc[p] = "ready"
    /\ wf[p] = "execute_contract"
    /\ wf' = wf
    /\ pc' = [pc EXCEPT ![p] = "outer_loop"]
    /\ UNCHANGED <<config, frames, account_number, attempt, q_attempt, r_attempt, r_last_exception,
                   tx, broad_tx_resp, polls, res, code_id, contract_address,
                   last_exception, outcome, ended, calls, slept_failed>>

\* send_funds has no loop: it packs the message and enters generate_tx.
Call_send_funds(p) ==
    /\ pc[p] = "ready"
    /\ wf[p] = "send_funds"
    /\ wf' = wf
    /\ pc' = [pc EXCEPT ![p] = "generate_tx"]
    /\ q_attempt' = [q_attempt EXCEPT ![p] = 0]
    /\ calls' = [calls EXCEPT ![p].generate_tx = @ + 1]
    /\ UNCHANGED <<config, frames, account_number, attempt, r_attempt, r_last_exception,
                   tx, broad_tx_resp, polls, res, code_id, contract_address,
                   last_exception, outcome, ended, slept_failed>>

\* The head of the workflow's while loop: the next attempt packs its message
\* and enters generate_tx; or the loop is left and the workflow raises or
\* returns.
OuterLoop(p) ==
    /\ pc[p] = "outer_loop"
    /\ IF LoopCondition(p)
       THEN /\ attempt' = [attempt EXCEPT ![p] = @ + 1]
            /\ pc' = [pc EXCEPT ![p] = "generate_tx"]
            /\ q_attempt' = [q_attempt EXCEPT ![p] = 0]
            /\ tx' = [tx EXCEPT ![p] = None]
            /\ broad_tx_resp' = [broad_tx_resp EXCEPT ![p] = None]
            /\ polls' = [polls EXCEPT ![p] = 0]
            /\ calls' = [calls EXCEPT ![p].generate_tx = @ + 1]
            /\ outcome' = outcome
       ELSE /\ pc' = [pc EXCEPT ![p] = "done"]
            /\ outcome' = [outcome EXCEPT ![p] = AfterLoop(p)]
            /\ UNCHANGED <<attempt, q_attempt, tx, broad_tx_resp, polls, calls>>
    /\ UNCHANGED <<config, frames, account_number, wf, r_attempt, r_last_exception, res, code_id,
                   contract_address, last_exception, ended, slept_failed>>

\* As SignAndEnterBroadcast, but broadcast_tx is entered with the transaction
\* as generate_tx built it, not signed.
SignAndEnterBroadcast_unsigned(p, t, number, c) ==
    IF number = None
    THEN /\ Raise(p, Exc("RuntimeError", "Getting account number failed", "", "None"),
                  Summary(t, None, Exc("RuntimeError", "Getting account number failed", "", "None")))
         /\ calls' = c
         /\ UNCHANGED <<tx, r_attempt, r_last_exception>>
    ELSE /\ tx' = tx
         /\ pc' = [pc EXCEPT ![p] = "broadcast_tx"]
         /\ r_attempt' = [r_attempt EXCEPT ![p] = 0]
         /\ r_last_exception' = [r_last_exception EXCEPT ![p] = NoExc]
         /\ calls' = [c EXCEPT ![p].broadcast_tx = @ + 1]
         /\ UNCHANGED <<last_exception, slept_failed, outcome, ended>>

\* sign_tx once the account number is known: RuntimeError if it is still
\* None, else the transaction is signed and broadcast_tx is entered.
SignAndEnterBroadcast(p, t, number, c) ==
    IF number = None
    THEN /\ Raise(p, Exc("RuntimeError", "Getting account number failed", "", "None"),
                  Summary(t, None, Exc("RuntimeError", "Getting account number failed", "", "None")))
         /\ calls' = c
         /\ UNCHANGED <<tx, r_attempt, r_last_exception>>
    ELSE /\ tx' = [tx EXCEPT ![p] = Some([t[1] EXCEPT !.signed = TRUE, !.account_number = number])]
         /\ pc' = [pc EXCEPT ![p] = "broadcast_tx"]
         /\ r_attempt' = [r_attempt EXCEPT ![p] = 0]
         /\ r_last_exception' = [r_last_exception EXCEPT ![p] = NoExc]
         /\ calls' = [c EXCEPT ![p].broadcast_tx = @ + 1]
         /\ UNCHANGED <<last_exception, slept_failed, outcome, ended>>

\* One pass of query_account_data's loop, called by generate_tx or by
\* _ensure_accont_number: auth_client.Account raises (the retry interval is
\* slept), or the loop is left and the caller goes on with the account.
Account(p) ==
    /\ pc[p] \in {"generate_tx", "_ensure_accont_number"}
    /\ q_attempt[p] < n_total_msg_retries
    /\ \E reply \in AccountReplies :
         LET r == query_account_data_result(reply)
         IN  IF reply.kind = "raise"
             THEN /\ q_attempt' = [q_attempt EXCEPT ![p] = @ + 1]
                  /\ UNCHANGED <<account_number, pc, tx, r_attempt, r_last_exception, calls,
                                 last_exception, slept_failed, outcome, ended>>
             ELSE /\ q_attempt' = [q_attempt EXCEPT ![p] = @ + 1]
                  /\ IF ~r.ok
                     THEN /\ Raise(p, r.exc, Summary(tx[p], None, r.exc))
                          /\ UNCHANGED <<account_number, tx, r_attempt, r_last_exception, calls>>
                     ELSE IF pc[p] = "generate_tx"
                     THEN /\ tx' = [tx EXCEPT ![p] =
                                      Some([hash |-> <<p, calls[p].generate_tx>>,
                                            signer_info |-> _get_signer_info(r.val[1], "pub_key"),
                                            account |-> r.val[1],
                                            account_number |-> None,
                                            signed |-> FALSE])]
                          /\ pc' = [pc EXCEPT ![p] = "sign_tx"]
                          /\ UNCHANGED <<account_number, r_attempt, r_last_exception, calls,
                                         last_exception, slept_failed, outcome, ended>>
                     ELSE /\ account_number' = Some(r.val[1].account_number)
                          /\ SignAndEnterBroadcast(p, tx[p], account_number', calls)
    /\ UNCHANGED <<config, frames, wf, attempt, broad_tx_resp, polls, res, code_id, contract_address>>

\* query_account_data's loop ended without a response.
AccountExhausted(p) ==
    /\ pc[p] \in {"generate_tx", "_ensure_accont_number"}
    /\ ~(q_attempt[p] < n_total_msg_retries)
    /\ LET e == Exc("BroadcastException",
                    "Getting account data failed after multiple attempts", "", "None")
       IN  Raise(p, e, Summary(tx[p], None, e))
    /\ UNCHANGED <<config, frames, account_number, wf, attempt, q_attempt, r_attempt, r_last_exception,
                   tx, broad_tx_resp, polls, res, code_id, contract_address, calls>>

\* As sign_tx, but the account is looked up whether or not the signer has an
\* account number.
sign_tx_always_queries(p) ==
    /\ pc[p] = "sign_tx"
    /\ pc' = [pc EXCEPT ![p] = "_ensure_accont_number"]
    /\ q_attempt' = [q_attempt EXCEPT ![p] = 0]
    /\ calls' = [calls EXCEPT ![p].sign_tx = @ + 1]
    /\ UNCHANGED <<tx, r_attempt, r_last_exception, last_exception, slept_failed,
                   outcome, ended>>
    /\ UNCHANGED <<config, frames, account_number, wf, attempt, broad_tx_resp, polls, res, code_id,
                   contract_address>>

\* sign_tx: _ensure_accont_number queries the account only if the signer has
\* no account number yet.
sign_tx(p) ==
    /\ pc[p] = "sign_tx"
    /\ IF account_number = None
       THEN /\ pc' = [pc EXCEPT ![p] = "_ensure_accont_number"]
            /\ q_attempt' = [q_attempt EXCEPT ![p] = 0]
            /\ calls' = [calls EXCEPT ![p].sign_tx = @ + 1]
            /\ UNCHANGED <<tx, r_attempt, r_last_exception, last_exception, slept_failed,
                           outcome, ended>>
       ELSE /\ q_attempt' = q_attempt
            /\ SignAndEnterBroadcast(p, tx[p], account_number,
                                     [calls EXCEPT ![p].sign_tx = @ + 1])
    /\ UNCHANGED <<config, frames, account_number, wf, attempt, broad_tx_resp, polls, res, code_id,
                   contract_address>>

\* One pass of the Retrier's loop around tx_client.BroadcastTx: the call
\* raises (the retry interval is slept) or returns nothing, and the loop goes
\* on; or it returns the acknowledgment, and broadcast_tx raises on a
\* rejection or enters get_tx with the transaction's hash.
BroadcastTx(p) ==
    /\ pc[p] = "broadcast_tx"
    /\ Retrier_continues(n_total_msg_retries, r_attempt[p])
    /\ \E reply \in BroadcastReplies :
         LET ack == [code |-> reply.code, raw_log |-> reply.raw_log, txhash |-> tx[p][1].hash]
             e == Exc("BroadcastException", "Transaction cannot be broadcast", ack.raw_log, "None")
         IN  CASE reply.kind = "raise" ->
                    /\ r_attempt' = [r_attempt EXCEPT ![p] = @ + 1]
                    /\ r_last_exception' = [r_last_exception EXCEPT ![p] = TransportError]
                    /\ UNCHANGED <<pc, broad_tx_resp, calls, last_exception, slept_failed,
                                   outcome, ended>>
               [] reply.kind = "none" ->
                    /\ r_attempt' = [r_attempt EXCEPT ![p] = @ + 1]
                    /\ UNCHANGED <<pc, r_last_exception, broad_tx_resp, calls, last_exception,
                                   slept_failed, outcome, ended>>
               [] OTHER ->
                    /\ broad_tx_resp' = [broad_tx_resp EXCEPT ![p] = Some(ack)]
                    /\ IF broadcast_rejected(ack)
                       THEN /\ r_attempt' = [r_attempt EXCEPT ![p] = @ + 1]
                            /\ Raise(p, e, Summary(tx[p], Some(ack), e))
                            /\ UNCHANGED <<r_last_exception, calls>>
                       ELSE /\ pc' = [pc EXCEPT ![p] = "get_tx"]
                            /\ r_attempt' = [r_attempt EXCEPT ![p] = 0]
                            /\ r_last_exception' = [r_last_exception EXCEPT ![p] = NoExc]
                            /\ calls' = [calls EXCEPT ![p].get_tx = @ + 1]
                            /\ UNCHANGED <<last_exception, slept_failed, outcome, ended>>
    /\ UNCHANGED <<config, frames, account_number, wf, attempt, q_attempt, tx, polls, res, code_id,
                   contract_address>>

\* The Retrier's loop around BroadcastTx ended without a response.
BroadcastTxExhausted(p) ==
    /\ pc[p] = "broadcast_tx"
    /\ ~Retrier_continues(n_total_msg_retries, r_attempt[p])
    /\ LET e == Retrier_exhausted("Transaction broadcasting failed after multiple attempts",
                                  r_last_exception[p])
       IN  Raise(p, e, Summary(tx[p], None, e))
    /\ UNCHANGED <<config, frames, account_number, wf, attempt, q_attempt, r_attempt, r_last_exception,
                   tx, broad_tx_resp, polls, res, code_id, contract_address, calls>>

\* One pass of the Retrier's loop around tx_client.GetTx in get_tx: the call
\* raises (the response interval is slept) or returns nothing, and the loop
\* goes on; or it returns the record, which broadcast_tx returns to the
\* workflow as res.
GetTx(p) ==
    /\ pc[p] = "get_tx"
    /\ Retrier_continues(n_get_response_retries, r_attempt[p])
    /\ polls' = [polls EXCEPT ![p] = @ + 1]
    /\ r_attempt' = [r_attempt EXCEPT ![p] = @ + 1]
    /\ \E reply \in GetTxReplies :
         CASE reply.kind = "raise" ->
                /\ r_last_exception' = [r_last_exception EXCEPT ![p] = TransportError]
                /\ UNCHANGED <<pc, res>>
           [] reply.kind = "none" ->
                /\ UNCHANGED <<pc, r_last_exception, res>>
           [] OTHER ->
                /\ res' = [res EXCEPT ![p] = Some([code |-> reply.code, raw_log |-> reply.raw_log,
                                                   txhash |-> broad_tx_resp[p][1].txhash])]
                /\ pc' = [pc EXCEPT ![p] = "extract"]
                /\ UNCHANGED r_last_exception
    /\ UNCHANGED <<config, frames, account_number, wf, attempt, q_attempt, tx, broad_tx_resp, code_id,
                   contract_address, last_exception, outcome, ended, calls, slept_failed>>

\* The Retrier's loop around GetTx ended without a record.
GetTxExhausted(p) ==
    /\ pc[p] = "get_tx"
    /\ ~Retrier_continues(n_get_response_retries, r_attempt[p])
    /\ LET e == Retrier_exhausted("Getting tx response failed after multiple attempts",
                                  r_last_exception[p])
       IN  Raise(p, e, Summary(tx[p], broad_tx_resp[p], e))
    /\ UNCHANGED <<config, frames, account_number, wf, attempt, q_attempt, r_attempt, r_last_exception,
                   tx, broad_tx_resp, polls, res, code_id, contract_address, calls>>

\* The workflow goes on with res: deploy_contract and instantiate_contract
\* extract their identifier from its raw log, execute_contract breaks out of
\* its loop and returns res with its response code, send_funds returns res.
Extract(p) ==
    /\ pc[p] = "extract"
    /\ LET id == get_code_id(res[p][1])
           addr == get_contract_address(res[p][1])
           fine == Summary(tx[p], broad_tx_resp[p], NoExc)
       IN  CASE wf[p] = "deploy_contract" ->
                  IF id.ok
                  THEN /\ code_id' = [code_id EXCEPT ![p] = id.val]
                       /\ pc' = [pc EXCEPT ![p] = "outer_loop"]
                       /\ ended' = [ended EXCEPT ![p] = Append(@, fine)]
                       /\ UNCHANGED <<contract_address, last_exception, slept_failed, outcome>>
                  ELSE /\ Raise(p, id.exc, Summary(tx[p], broad_tx_resp[p], id.exc))
                       /\ UNCHANGED <<code_id, contract_address>>
             [] wf[p] = "instantiate_contract" ->
                  IF addr.ok
                  THEN /\ contract_address' = [contract_address EXCEPT ![p] = addr.val]
                       /\ pc' = [pc EXCEPT ![p] = "outer_loop"]
                       /\ ended' = [ended EXCEPT ![p] = Append(@, fine)]
                       /\ UNCHANGED <<code_id, last_exception, slept_failed, outcome>>
                  ELSE /\ Raise(p, addr.exc, Summary(tx[p], broad_tx_resp[p], addr.exc))
                       /\ UNCHANGED <<code_id, contract_address>>
             [] wf[p] = "execute_contract" ->
                  /\ pc' = [pc EXCEPT ![p] = "done"]
                  /\ outcome' = [outcome EXCEPT ![p] =
                                   execute_contract_return(res[p], last_exception[p])]
                  /\ ended' = [ended EXCEPT ![p] = Append(@, fine)]
                  /\ UNCHANGED <<code_id, contract_address, last_exception, slept_failed>>
             [] OTHER ->
                  /\ pc' = [pc EXCEPT ![p] = "done"]
                  /\ outcome' = [outcome EXCEPT ![p] = send_funds_return(res[p])]
                  /\ ended' = [ended EXCEPT ![p] = Append(@, fine)]
                  /\ UNCHANGED <<code_id, contract_address, last_exception, slept_failed>>
    /\ UNCHANGED <<config, frames, account_number, wf, attempt, q_attempt, r_attempt, r_last_exception,
                   tx, broad_tx_resp, polls, res, calls>>

\* ---------------------------------------------------------- specifications

Step(p) ==
    \/ Call_deploy_contract(p)
    \/ Call_instantiate_contract(p)
    \/ Call_execute_contract(p)
    \/ Call_send_funds(p)
    \/ OuterLoop(p)
    \/ Account(p)
    \/ AccountExhausted(p)
    \/ sign_tx(p)
    \/ BroadcastTx(p)
    \/ BroadcastTxExhausted(p)
    \/ GetTx(p)
    \/ GetTxExhausted(p)
    \/ Extract(p)

Next == \E p \in Procs : Step(p)

Spec == Init /\ [][Next]_vars

\* Two concurrent callers of send_funds with the same signer.
InitRace == InitClient([p \in Procs |-> "send_funds"]) /\ CallsIdle

StepRace(p) ==
    \/ Call_send_funds(p)
    \/ Account(p)
    \/ AccountExhausted(p)
    \/ sign_tx(p)
    \/ BroadcastTx(p)
    \/ BroadcastTxExhausted(p)
    \/ GetTx(p)
    \/ GetTxExhausted(p)
    \/ Extract(p)

NextRace == \E p \in Procs : StepRace(p)

SpecRace == InitRace /\ [][NextRace]_vars

\* ------------------------------------------------- Retrier.call_with_retry

\* The workflows' state, which no operation that stands alone changes.
ledger ==
    <<n_total_msg_retries, n_sending_retries, n_get_response_retries,
      account_number, wf, pc, attempt, q_attempt, r_attempt, r_last_exception,
      tx, broad_tx_resp, polls, res, code_id, contract_address, last_exception,
      outcome, ended, calls, slept_failed>>

\* What the steps of one operation leave unchanged.
but_retrier == <<ledger, query, faucet, node, build, applied>>
but_query == <<ledger, retrier, faucet, node, build, applied>>
but_faucet == <<ledger, retrier, query, node, build, applied>>
but_node == <<ledger, retrier, query, faucet, build, applied>>
but_build == <<ledger, retrier, query, faucet, node, applied>>
but_applied == <<ledger, retrier, query, faucet, node, build>>

\* What the wrapped call does on one invocation: raises one of two
\* exceptions, returns None, or returns a response.
CallOutcomes ==
    {[kind |-> "raise", exc |-> TransportError],
     [kind |-> "raise", exc |-> Exc("ValueError", "", "", "None")],
     [kind |-> "none", exc |-> NoExc],
     [kind |-> "value", exc |-> NoExc]}

ExceptionTypes == {"BroadcastException", "LedgerServerNotAvailable"}

\* Variant: the exhaustion error is raised without "from last_exception".
call_with_retry_raise_unchained(exception_type, call_name, last) ==
    Exc(exception_type, call_name, "", "None")

\* call_with_retry: raise self.exception_type(...) from last_exception
call_with_retry_raise(exception_type, call_name, last) ==
    Exc(exception_type, call_name, "", last.type)

\* Retrier(n_retries, retry_interval, exception_type=...).call_with_retry(call)
\* is entered: last_exception = None, response = None, attempt = 0.
InitRetrier ==
    \E n \in 0..MaxRetries, t \in ExceptionTypes :
        retrier = [retrier_idle EXCEPT !.pc = "call_with_retry", !.n_retries = n,
                                       !.exception_type = t]

\* One pass of the while loop: the call raises (last_exception is set and the
\* retry interval is slept), returns None (the loop goes on at once) or
\* returns a response (break, and the response is returned).
call_with_retry(o) ==
    /\ retrier.pc = "call_with_retry"
    /\ Retrier_continues(retrier.n_retries, retrier.attempt)
    /\ LET r == [retrier EXCEPT !.attempt = @ + 1, !.called = @ + 1,
                                !.history = Append(@, o)]
       IN  retrier' =
             CASE o.kind = "raise" -> [r EXCEPT !.last_exception = o.exc, !.slept = @ + 1]
               [] o.kind = "none" -> r
               [] OTHER -> [r EXCEPT !.response = Some("response"), !.pc = "done",
                                     !.outcome = Ret("response")]
    /\ UNCHANGED but_retrier

\* The loop ended with response still None.
call_with_retry_exhausted ==
    /\ retrier.pc = "call_with_retry"
    /\ ~Retrier_continues(retrier.n_retries, retrier.attempt)
    /\ retrier' = [retrier EXCEPT
                     !.pc = "done",
                     !.outcome = Thrown(call_with_retry_raise(
                                           retrier.exception_type,
                                           "execution failed after multiple attempts",
                                           retrier.last_exception))]
    /\ UNCHANGED but_retrier

\* ------------------------------------------------------------ the queries

OtherErrors == {TransportError, Exc("ValueError", "", "", "None")}

\* bank_client.Balance: raises, returns nothing, or returns a response whose
\* balance.amount is a decimal string ("" when the balance is unset).
BalanceReplies ==
    {[kind |-> "raise", exc |-> e, val |-> ""] : e \in OtherErrors}
    \cup {[kind |-> "none", exc |-> NoExc, val |-> ""]}
    \cup {[kind |-> "response", exc |-> NoExc, val |-> a] : a \in {"42", ""}}

\* bank_client.AllBalances: as above, with the amounts of the coins held.
AllBalancesReplies ==
    {[kind |-> "raise", exc |-> e, val |-> <<>>] : e \in OtherErrors}
    \cup {[kind |-> "none", exc |-> NoExc, val |-> <<>>]}
    \cup {[kind |-> "response", exc |-> NoExc, val |-> b] : b \in {<<>>, <<"42">>}}

\* wasm_client.SmartContractState: as above, with the response's data.
SmartContractStateReplies ==
    {[kind |-> "raise", exc |-> e, val |-> ""] : e \in OtherErrors}
    \cup {[kind |-> "none", exc |-> NoExc, val |-> ""]}
    \cup {[kind |-> "response", exc |-> NoExc, val |-> d] : d \in {"{}", "not json"}}

\* json.loads(data) for the data of SmartContractStateReplies: the document,
\* or None where it raises JSONDecodeError.
json_loads(data) == IF data = "{}" THEN Some("{}") ELSE None

\* attempt += 1, and the client is called.
loop_pass(q, kind, exc) ==
    [q EXCEPT !.attempt = @ + 1, !.called = @ + 1,
              !.history = Append(@, [kind |-> kind, exc |-> exc])]

\* Variant: get_balance sleeps the failed interval after an exception.
get_balance_except_failed_interval(q, e) ==
    [q EXCEPT !.last_exception = e, !.slept_failed = @ + 1]

\* The except branches of the query loops: the exception is kept and
\* msg_retry_interval (query_contract_state: msg_failed_retry_interval) slept.
get_balance_except(q, e) == [q EXCEPT !.last_exception = e, !.slept_retry = @ + 1]
get_balances_except(q, e) == [q EXCEPT !.last_exception = e, !.slept_retry = @ + 1]
query_contract_state_except(q, e) == [q EXCEPT !.last_exception = e, !.slept_failed = @ + 1]
query_account_data_except(q, e) == [q EXCEPT !.last_exception = e, !.slept_retry = @ + 1]

\* The errors raised after the loops; query_contract_state alone raises
\* "from last_exception".
get_balance_raise(last) ==
    Exc("BroadcastException", "Getting balance failed after multiple attempts", "", "None")
get_balances_raise(last) ==
    Exc("BroadcastException", "Getting balances failed after multiple attempts", "", "None")
query_contract_state_raise(last) ==
    Exc("BroadcastException", "Getting contract state failed after multiple attempts", "",
        last.type)

\* A query is called on a client with the given budget.
InitQuery(fn) ==
    /\ n_total_msg_retries \in 0..MaxQueryRetries
    /\ \E n \in IF fn = "query_contract_state" THEN {None, Some(1)} ELSE {None} :
         query = [query_idle EXCEPT !.pc = fn, !.fn = fn, !.n_retries = n]

\* get_balance: one pass of its loop, or what follows the loop.
get_balance ==
    /\ query.pc = "get_balance"
    /\ IF query.attempt < n_total_msg_retries
       THEN \E reply \in BalanceReplies :
              LET q == loop_pass(query, reply.kind, reply.exc)
              IN  query' =
                    CASE reply.kind = "raise" -> get_balance_except(q, reply.exc)
                      [] reply.kind = "none" -> q
                      [] OTHER ->
                           [q EXCEPT !.res = Some(reply.val), !.pc = "done",
                                     !.outcome = IF int(reply.val) = None
                                                 THEN Thrown(Exc("ValueError", "", "", "None"))
                                                 ELSE Ret(int(reply.val)[1])]
       ELSE query' = [query EXCEPT !.pc = "done",
                                   !.outcome = Thrown(get_balance_raise(query.last_exception))]
    /\ UNCHANGED but_query

\* get_balances: one pass of its loop, or what follows the loop.
get_balances ==
    /\ query.pc = "get_balances"
    /\ IF query.attempt < n_total_msg_retries
       THEN \E reply \in AllBalancesReplies :
              LET q == loop_pass(query, reply.kind, reply.exc)
              IN  query' =
                    CASE reply.kind = "raise" -> get_balances_except(q, reply.exc)
                      [] reply.kind = "none" -> q
                      [] OTHER -> [q EXCEPT !.res = Some(reply.val), !.pc = "done",
                                            !.outcome = Ret(reply.val)]
       ELSE query' = [query EXCEPT !.pc = "done",
                                   !.outcome = Thrown(get_balances_raise(query.last_exception))]
    /\ UNCHANGED but_query

\* query_contract_state: one pass of its loop (n_retries defaults to
\* n_total_msg_retries), or what follows the loop.
query_contract_state ==
    /\ query.pc = "query_contract_state"
    /\ LET n_retries == IF query.n_retries = None THEN n_total_msg_retries
                        ELSE query.n_retries[1]
       IN  IF query.attempt < n_retries
           THEN \E reply \in SmartContractStateReplies :
                  LET q == loop_pass(query, reply.kind, reply.exc)
                  IN  query' =
                        CASE reply.kind = "raise" -> query_contract_state_except(q, reply.exc)
                          [] reply.kind = "none" -> q
                          [] OTHER ->
                               [q EXCEPT !.res = Some(reply.val), !.pc = "done",
                                         !.outcome =
                                            IF json_loads(reply.val) = None
                                            THEN Thrown(Exc("JSONDecodeError", "", "", "None"))
                                            ELSE Ret(json_loads(reply.val)[1])]
           ELSE query' = [query EXCEPT
                            !.pc = "done",
                            !.outcome = Thrown(query_contract_state_raise(query.last_exception))]
    /\ UNCHANGED but_query

\* query_account_data: one pass of its loop, left by any return of the
\* client, or what follows the loop.
query_account_data ==
    /\ query.pc = "query_account_data"
    /\ IF query.attempt < n_total_msg_retries
       THEN \E reply \in AccountReplies :
              LET r == query_account_data_result(reply)
              IN  query' =
                    IF reply.kind = "raise"
                    THEN query_account_data_except(
                             loop_pass(query, "raise", TransportError), TransportError)
                    ELSE [loop_pass(query, reply.kind, NoExc) EXCEPT
                            !.res = IF reply.kind = "none" THEN None ELSE Some(reply),
                            !.pc = "done",
                            !.outcome = IF r.ok THEN Ret(r.val[1]) ELSE Thrown(r.exc)]
       ELSE query' = [query EXCEPT
                        !.pc = "done",
                        !.outcome = Thrown(query_account_data_result(
                                        [kind |-> "none", base |-> FALSE,
                                         account_number |-> 0, sequence |-> 0]).exc)]
    /\ UNCHANGED but_query

\* ------------------------------------------ refill_wealth_from_faucet

\* min_amount_required when no amount is given.
DefaultMinAmount == 500000000

\* amount if amount else 500000000
min_amount_required(amount) ==
    IF amount = None \/ amount[1] = 0 THEN DefaultMinAmount ELSE amount[1]

\* What self.get_balances(address) can do with a budget of n calls: raise on
\* exhaustion, or (given at least one call) return the amounts of the coins.
get_balances_outcomes(n) ==
    {Thrown(get_balances_raise(NoExc))}
    \cup IF n >= 1
         THEN {Ret(r.val) : r \in {x \in AllBalancesReplies : x.kind = "response"}}
         ELSE {}

\* requests.post(faucet_url + "/api/v3/claims"): the status code, or "raise".
FaucetReplies == {"200", "500", "raise"}

\* Variant: the loop over one address has no attempt cap.
refill_while_uncapped(a, n) == TRUE

\* while attempt < self.n_total_msg_retries
refill_while(a, n) == a < n

\* refill_wealth_from_faucet(addresses, amount) is called.
InitFaucet ==
    /\ n_total_msg_retries \in 0..MaxRetries
    /\ \E a \in {<<>>, <<"addr1">>, <<"addr1", "addr2">>}, m \in {None, Some(0), Some(40)} :
         faucet = [faucet_idle EXCEPT !.pc = IF a = <<>> THEN "done" ELSE "while",
                                      !.outcome = IF a = <<>> THEN Ret("None") ELSE Pending,
                                      !.addresses = a, !.amount = m]

\* for address in addresses: the loop goes on to the next address, or the
\* function returns.
next_address(f, reached) ==
    LET g == [f EXCEPT !.left = Append(@, [reached |-> reached, attempts |-> f.attempt]),
                       !.i = @ + 1, !.attempt = 0]
    IN  IF f.i = Len(f.addresses)
        THEN [g EXCEPT !.pc = "done", !.outcome = Ret("None")]
        ELSE g

\* One pass of the while loop for the current address: the balance is
\* queried; below the threshold the faucet is asked and faucet_retry_interval
\* slept; at the threshold the loop is left (break); any exception is logged
\* and faucet_retry_interval slept.
refill_attempt ==
    /\ faucet.pc = "while"
    /\ refill_while(faucet.attempt, n_total_msg_retries)
    /\ \E b \in get_balances_outcomes(n_total_msg_retries), post \in FaucetReplies :
         LET f == [faucet EXCEPT !.attempt = @ + 1, !.polled = @ + 1]
             balance == IF b.val[1] = <<>> THEN 0 ELSE int(b.val[1][1])[1]
         IN  faucet' =
               IF b.kind = "raised"
               THEN [f EXCEPT !.slept_faucet = @ + 1]
               ELSE IF balance < min_amount_required(faucet.amount)
               THEN [f EXCEPT !.claimed = @ + 1, !.slept_faucet = @ + 1]
               ELSE next_address(f, TRUE)
    /\ UNCHANGED but_faucet

\* The while loop ends for the current address with its budget used up.
refill_budget_used ==
    /\ faucet.pc = "while"
    /\ ~refill_while(faucet.attempt, n_total_msg_retries)
    /\ faucet' = next_address(faucet, FALSE)
    /\ UNCHANGED but_faucet

\* --------------------------------------- __init__ and check_availability

ChainIds == {"fetchhub-4", "dorado-1"}

\* A node address argument: None, the empty string, or an address.
NodeAddresses == {None, Some(""), Some("node:1317")}

\* bool(x) of an optional string.
truthy(x) == x # None /\ x[1] # ""

\* The answer to the node-info request: the call raises; the body is no JSON
\* or JSON without the network entry (REST; over RPC: a reply without
\* default_node_info); or it names a network.
NodeInfoReplies ==
    {[kind |-> k, network |-> ""] : k \in {"raise", "not json", "no key"}}
    \cup {[kind |-> "response", network |-> n] : n \in ChainIds}

\* Variant: __init__ refuses two addresses, and takes none for an RPC node.
init_raises_both_only(rest_node_address, rpc_node_address) ==
    IF truthy(rpc_node_address) /\ truthy(rest_node_address)
    THEN Some(Exc("ValueError", "Only one node type can be specified.", "", "None"))
    ELSE None

\* The ValueError __init__ raises for its node addresses, None if it raises
\* none.
init_raises(rest_node_address, rpc_node_address) ==
    IF truthy(rpc_node_address) /\ truthy(rest_node_address)
    THEN Some(Exc("ValueError", "Only one node type can be specified.", "", "None"))
    ELSE IF ~truthy(rest_node_address) /\ ~truthy(rpc_node_address)
    THEN Some(Exc("ValueError", "No node address specified", "", "None"))
    ELSE None

\* Variant: the exception of the try block is raised as it is.
check_availability_except_reraise(e) == e

\* except Exception as e: raise LedgerServerNotAvailable(...) from e
check_availability_except(e) ==
    Exc("LedgerServerNotAvailable", "ledger server is not available with address", "",
        e.type)

\* The exception raised inside check_availability's try block, None if none:
\* by the client, by json.loads, by result["node_info"]["network"], or the
\* ValueError of a network that is not chain_id.
check_availability_try(rest, reply, chain_id) ==
    CASE reply.kind = "raise" -> Some(TransportError)
      [] reply.kind = "not json" ->
           Some(Exc(IF rest THEN "JSONDecodeError" ELSE "AttributeError", "", "", "None"))
      [] reply.kind = "no key" ->
           Some(Exc(IF rest THEN "KeyError" ELSE "AttributeError", "", "", "None"))
      [] OTHER ->
           IF reply.network # chain_id
           THEN Some(Exc("ValueError", "Bad chain id", "", "None"))
           ELSE None

\* CosmosLedger(chain_id, rest_node_address, rpc_node_address, secure_channel)
\* is called.
InitNode ==
    \E c \in ChainIds, rest \in NodeAddresses, rpc \in NodeAddresses, s \in BOOLEAN :
        node = [node_idle EXCEPT !.pc = "__init__", !.chain_id = c,
                                 !.rest_node_address = rest, !.rpc_node_address = rpc,
                                 !.secure_channel = s]

\* __init__: ValueError for two node addresses or none; else the clients of
\* the one transport are made.
__init__ ==
    /\ node.pc = "__init__"
    /\ LET e == init_raises(node.rest_node_address, node.rpc_node_address)
       IN  node' =
             IF e # None
             THEN [node EXCEPT !.pc = "done", !.constructed = Thrown(e[1])]
             ELSE IF truthy(node.rest_node_address)
             THEN [node EXCEPT !.pc = "constructed", !.constructed = Ret("CosmosLedger"),
                               !.rest_client = node.rest_node_address,
                               !.created = {"rest_client", "tx_client", "auth_client",
                                            "wasm_client", "bank_client"}]
             ELSE [node EXCEPT !.pc = "constructed", !.constructed = Ret("CosmosLedger"),
                               !.rpc_client = node.rpc_node_address,
                               !.created = {"rpc_client", "tx_client", "auth_client",
                                            "wasm_client", "bank_client",
                                            "tendermint_client"}]
    /\ UNCHANGED but_node

\* check_availability: one node-info request over the client's transport;
\* whatever is raised inside the try block is raised on as
\* LedgerServerNotAvailable.
check_availability ==
    /\ node.pc = "constructed"
    /\ \E reply \in NodeInfoReplies :
         LET e == check_availability_try(node.rest_client # None, reply, node.chain_id)
         IN  node' = [node EXCEPT
                        !.pc = "done",
                        !.round_trips = @ + 1,
                        !.reply = reply,
                        !.outcome = IF e = None THEN Ret("None")
                                    ELSE Thrown(check_availability_except(e[1]))]
    /\ UNCHANGED but_node

\* ------------------------------------------------------------ generate_tx

\* Longest list of messages, addresses or public keys given to generate_tx.
MaxLen == 2

RECURSIVE ListsOver(_, _)
\* The lists of at most n items of S.
ListsOver(S, n) ==
    IF n = 0 THEN {<<>>}
    ELSE LET shorter == ListsOver(S, n - 1)
         IN  shorter \cup {Append(l, x) : l \in shorter, x \in S}

\* zip(from_addresses, pub_keys) ends with the shorter list.
zip_len(a, b) == IF Len(a) < Len(b) THEN Len(a) ELSE Len(b)

\* Variant: only the first message is put into the body.
extend_first_only(messages, packed_msgs) ==
    IF packed_msgs = <<>> THEN messages ELSE Append(messages, packed_msgs[1])

\* Variant: the messages are put into the body last first.
extend_reversed(messages, packed_msgs) ==
    messages \o [i \in 1..Len(packed_msgs) |-> packed_msgs[Len(packed_msgs) + 1 - i]]

\* tx_body.messages.extend(packed_msgs)
extend(messages, packed_msgs) == messages \o packed_msgs

\* generate_tx(packed_msgs, from_addresses, pub_keys) is called.
InitBuild ==
    \E m \in ListsOver({"msg1", "msg2"}, MaxLen),
       a \in ListsOver({"addr1", "addr2"}, MaxLen),
       k \in ListsOver({"key1", "key2"}, MaxLen) :
        build = [build_idle EXCEPT !.pc = "for", !.packed_msgs = m,
                                   !.from_addresses = a, !.pub_keys = k]

\* One pass of the loop over zip(from_addresses, pub_keys): the address's
\* account is queried (query_account_data raises, or returns the account),
\* and the account and its signer info are appended.
generate_tx_signer ==
    /\ build.pc = "for"
    /\ Len(build.queried) < zip_len(build.from_addresses, build.pub_keys)
    /\ \E reply \in AccountReplies :
         LET i == Len(build.queried) + 1
             r == query_account_data_result(
                      IF reply.kind = "raise" THEN [reply EXCEPT !.kind = "none"] ELSE reply)
             account == [address |-> build.from_addresses[i],
                         account_number |-> r.val[1].account_number,
                         sequence |-> r.val[1].sequence]
             b == [build EXCEPT !.queried = Append(@, build.from_addresses[i])]
         IN  build' =
               IF r.ok
               THEN [b EXCEPT !.accounts = Append(@, account),
                              !.signer_infos =
                                 Append(@, _get_signer_info(account, build.pub_keys[i]))]
               ELSE [b EXCEPT !.pc = "done", !.outcome = Thrown(r.exc)]
    /\ UNCHANGED but_build

\* After the loop: the Tx is made of the signer infos and the messages.
generate_tx_return ==
    /\ build.pc = "for"
    /\ ~(Len(build.queried) < zip_len(build.from_addresses, build.pub_keys))
    /\ build' = [build EXCEPT
                   !.pc = "done",
                   !.outcome = Ret([signer_infos |-> build.signer_infos,
                                    messages |-> extend(<<>>, build.packed_msgs)])]
    /\ UNCHANGED but_build

\* ------------------------------------- functions applied on their own

MaxNodes == 4

TreeLeaves == {Str("code_id"), Str("contract_address"), Num("42"), Lst(<<>>), Dct(<<>>)}
TreeKeys == {"key", "code_id"}

\* The JSON-like objects of exactly n nodes: scalar leaves, lists and dicts
\* of at most two items.
RECURSIVE TreesOfSize(_)
TreesOfSize(n) ==
    IF n = 1 THEN TreeLeaves
    ELSE {Lst(<<t>>) : t \in TreesOfSize(n - 1)}
         \cup {Dct(<<KV(k, t)>>) : k \in TreeKeys, t \in TreesOfSize(n - 1)}
         \cup UNION {{Lst(<<t, u>>) : t \in TreesOfSize(i), u \in TreesOfSize(n - 1 - i)}
                     : i \in 1..(n - 2)}
         \cup UNION {{Dct(<<KV("key", t), KV("code_id", u)>>)
                      : t \in TreesOfSize(i), u \in TreesOfSize(n - 1 - i)}
                     : i \in 1..(n - 2)}

Trees == UNION {TreesOfSize(n) : n \in 1..MaxNodes}

\* CosmosLedger._find_item(obj, re_pattern), called on its own.
InitFindItem ==
    \E obj \in Trees, re_pattern \in {CODE_ID_RE, CONTRACT_ADDRESS_RE} :
        applied = [applied_idle EXCEPT !.pc = "call", !.fn = "_find_item",
                                       !.obj = obj, !.re_pattern = re_pattern]

Apply_find_item ==
    /\ applied.pc = "call"
    /\ applied.fn = "_find_item"
    /\ applied' = [applied EXCEPT !.pc = "done",
                                  !.found = _find_item(applied.obj, applied.re_pattern)]
    /\ UNCHANGED but_applied

\* The characters the addresses below are made of.
LowerLetters == {"a", "c", "e", "f", "h", "t"}
Digits == {"1", "7"}

AddressBodyLen == 39

\* addr_re = re.compile("^" + prefix + "[0-9a-z]{39}$"): the parts of the
\* pattern.
addr_re(prefix) ==
    [prefix |-> prefix, class |-> Digits \cup LowerLetters, count |-> AddressBodyLen,
     dollar |-> TRUE]

\* The positions at which a match of the prefix pattern, begun at the start
\* of s ("^"), can end: "[a-z]+" takes one or more lower-case letters,
\* "fetch" the five letters.
prefix_ends(prefix, s) ==
    CASE prefix = "[a-z]+" -> {p \in 1..Len(s) : \A i \in 1..p : s[i] \in LowerLetters}
      [] prefix = "fetch" ->
           IF Len(s) >= 5 /\ SubSeq(s, 1, 5) = <<"f", "e", "t", "c", "h">> THEN {5} ELSE {}
      [] OTHER -> {}

\* "$" after pos characters of s: the end of the string, or just before a
\* newline that ends the string.
dollar(s, pos) == pos = Len(s) \/ (pos = Len(s) - 1 /\ s[Len(s)] = "\n")

\* The address is validated by the pattern: a match of the prefix, then
\* count characters of the class, then "$".
addr_re_match(pattern, address) ==
    \E p \in prefix_ends(pattern.prefix, address) :
        /\ p + pattern.count <= Len(address)
        /\ \A i \in (p + 1)..(p + pattern.count) : address[i] \in pattern.class
        /\ pattern.dollar => dollar(address, p + pattern.count)

Repeat(c, n) == [i \in 1..n |-> c]

\* Addresses: a prefix, a body of 38, 39 or 40 characters of [0-9a-z] with at
\* most one character of another kind at either end, and at most one
\* character after it.
AddressPrefixes == {<<>>, <<"f">>, <<"f", "e", "t", "c", "h">>, <<"A">>, <<"1">>}
AddressBodies ==
    LET plain == {Repeat(c, n) : c \in {"a", "7"},
                                 n \in (AddressBodyLen - 1)..(AddressBodyLen + 1)}
    IN  plain \cup {[b EXCEPT ![i] = x] : b \in plain, i \in {1, AddressBodyLen - 1},
                                          x \in {"A", "_"}}
AddressTails == {<<>>, <<"\n">>, <<"!">>}
Addresses == {h \o b \o t : h \in AddressPrefixes, b \in AddressBodies, t \in AddressTails}

\* CosmosLedger.is_valid_crypto_address(address, prefix), called on its own.
InitValidAddress ==
    \E address \in Addresses, prefix \in {"[a-z]+", "fetch"} :
        applied = [applied_idle EXCEPT !.pc = "call", !.fn = "is_valid_crypto_address",
                                       !.address = address, !.prefix = prefix]

Apply_is_valid_crypto_address ==
    /\ applied.pc = "call"
    /\ applied.fn = "is_valid_crypto_address"
    /\ applied' = [applied EXCEPT !.pc = "done",
                                  !.valid = addr_re_match(addr_re(applied.prefix),
                                                          applied.address)]
    /\ UNCHANGED but_applied

\* ------------------------------------------- specification: single calls

Queries == {"get_balance", "get_balances", "query_contract_state", "query_account_data"}

Operations ==
    {"call_with_retry", "refill_wealth_from_faucet", "__init__", "generate_tx",
     "_find_item", "is_valid_crypto_address"} \cup Queries

\* A client whose workflows are not called; the budgets no operation reads
\* keep one value.
InitCalls(o) ==
    /\ InitProcs([p \in Procs |-> "none"])
    /\ n_sending_retries = DefaultSendingRetries
    /\ n_get_response_retries = MaxRetries
    /\ account_number = None
    /\ IF o = "call_with_retry" THEN InitRetrier ELSE retrier = retrier_idle
    /\ IF o \in Queries THEN InitQuery(o) ELSE query = query_idle
    /\ IF o = "refill_wealth_from_faucet" THEN InitFaucet ELSE faucet = faucet_idle
    /\ IF o = "__init__" THEN InitNode ELSE node = node_idle
    /\ IF o = "generate_tx" THEN InitBuild ELSE build = build_idle
    /\ CASE o = "_find_item" -> InitFindItem
         [] o = "is_valid_crypto_address" -> InitValidAddress
         [] OTHER -> applied = applied_idle
    /\ o \notin Queries \cup {"refill_wealth_from_faucet"}
       => n_total_msg_retries = DefaultTotalMsgRetries

InitCallsAny == \E o \in Operations : InitCalls(o)

NextCalls ==
    \/ \E o \in CallOutcomes : call_with_retry(o)
    \/ call_with_retry_exhausted
    \/ get_balance
    \/ get_balances
    \/ query_contract_state
    \/ query_account_data
    \/ refill_attempt
    \/ refill_budget_used
    \/ __init__
    \/ check_availability
    \/ generate_tx_signer
    \/ generate_tx_return
    \/ Apply_find_item
    \/ Apply_is_valid_crypto_address

SpecCalls == InitCallsAny /\ [][NextCalls]_vars

\* ------------------------------------- specification: every call goes on

\* One invocation of any workflow or of any stand-alone operation, which is
\* not left unfinished: the caller's thread runs on, every network call and
\* every sleep returns.
InitLive == Init \/ InitCallsAny

NextLive == Next \/ NextCalls

SpecLive == InitLive /\ [][NextLive]_vars /\ WF_vars(NextLive)

\* ------------------------------------------------------------------ claims

Rejected(ack) == ack # None /\ ack[1].code # 0
Accepted(ack) == ack # None /\ ack[1].code = 0
IsDone(p, w) == wf[p] = w /\ pc[p] = "done"
RejectionOf(ack) ==
    Exc("BroadcastException", "Transaction cannot be broadcast", ack[1].raw_log, "None")
TimedOut(e) ==
    e.type = "BroadcastException"
    /\ e.why = "Getting tx response failed after multiple attempts"

\* C1 (scenario A): deploy_contract whose first attempt's acknowledgment is a
\* rejection and whose second attempt is accepted and confirmed with a log
\* holding a code_id marker returns the code id of that second confirmation
\* (42 for the store-code log), after exactly two attempts (two builds, two
\* signatures, two broadcasts, one sleep of the failed interval), the second
\* transaction carrying the sequence of the account its own attempt queried.
ScenarioA(p) ==
    /\ IsDone(p, "deploy_contract")
    /\ n_total_msg_retries >= 2
    /\ Len(ended[p]) >= 2
    /\ Rejected(ended[p][1].ack)
    /\ Accepted(ended[p][2].ack)
    /\ res[p] # None
    /\ res[p][1].txhash = ended[p][2].ack[1].txhash
    /\ get_code_id(res[p][1]).ok

C1_DeployRejectedOnceThenSucceeds ==
    \A p \in Procs :
        ScenarioA(p) =>
            /\ outcome[p].kind = "returned"
            /\ outcome[p].ret.code_id = get_code_id(res[p][1]).val
            /\ res[p][1].raw_log = LogStoreCode => outcome[p].ret.code_id = Some(42)
            /\ outcome[p].ret.res = res[p]
            /\ attempt[p] = 2
            /\ Len(ended[p]) = 2
            /\ calls[p] = [generate_tx |-> 2, sign_tx |-> 2, broadcast_tx |-> 2, get_tx |-> 1]
            /\ slept_failed[p] = 1
            /\ tx[p][1].hash = <<p, 2>>
            /\ res[p][1].txhash = <<p, 2>>
            /\ tx[p][1].signer_info.sequence = tx[p][1].account.sequence

C1_Witness ==
    \E p \in Procs :
        /\ ScenarioA(p)
        /\ outcome[p].ret.code_id = Some(42)
        /\ tx[p][1].signer_info.sequence = 4

\* C2: when every attempt of deploy_contract ended in a BroadcastException,
\* exactly n_total_msg_retries attempts were made (none for a budget of 0),
\* BroadcastException is raised and no code id is returned.
AllAttemptsBroadcastException(p) ==
    /\ IsDone(p, "deploy_contract")
    /\ \A i \in 1..Len(ended[p]) : ended[p][i].exc.type = "BroadcastException"

C2_DeployExhaustsOuterBudget ==
    \A p \in Procs :
        AllAttemptsBroadcastException(p) =>
            /\ attempt[p] = n_total_msg_retries
            /\ Len(ended[p]) = n_total_msg_retries
            /\ calls[p].generate_tx = n_total_msg_retries
            /\ slept_failed[p] = n_total_msg_retries
            /\ outcome[p].kind = "raised"
            /\ outcome[p].exc.type = "BroadcastException"
            /\ outcome[p].ret.code_id = None
            /\ code_id[p] = None

C2_Witness ==
    \E p \in Procs :
        /\ AllAttemptsBroadcastException(p)
        /\ n_total_msg_retries = 2
        /\ Len(ended[p]) = 2
        /\ Rejected(ended[p][1].ack)

\* C3: whenever the acknowledgment of the current transaction has a non-zero
\* code, broadcast_tx has raised BroadcastException carrying the raw log, no
\* GetTx call is made for that transaction and neither res nor the returned
\* value is a record of it.
C3_RejectedIsNeverConfirmed ==
    \A p \in Procs :
        Rejected(broad_tx_resp[p]) =>
            /\ polls[p] = 0
            /\ pc[p] \in {"outer_loop", "done"}
            /\ Len(ended[p]) >= 1
            /\ ended[p][Len(ended[p])].ack = broad_tx_resp[p]
            /\ ended[p][Len(ended[p])].exc = RejectionOf(broad_tx_resp[p])
            /\ res[p] # None => res[p][1].txhash # broad_tx_resp[p][1].txhash
            /\ outcome[p].kind # "returned"
            /\ wf[p] = "send_funds" => outcome[p] = Raised(RejectionOf(broad_tx_resp[p]))
            /\ wf[p] # "send_funds" => last_exception[p] = RejectionOf(broad_tx_resp[p])

C3_Witness ==
    \E p \in Procs :
        /\ Rejected(broad_tx_resp[p])
        /\ broad_tx_resp[p][1].raw_log = "account sequence mismatch"
        /\ calls[p].get_tx >= 1

\* C4: once execute_contract holds a confirmed record, whatever its response
\* code, it makes no further attempt and returns the pair of that record and
\* its code.
C4_ExecuteReturnsResponseCode ==
    \A p \in Procs :
        (wf[p] = "execute_contract" /\ res[p] # None) =>
            /\ pc[p] \in {"extract", "done"}
            /\ pc[p] = "done" =>
                 /\ outcome[p].kind = "returned"
                 /\ outcome[p].ret.res = res[p]
                 /\ outcome[p].ret.err_code = Some(res[p][1].code)
                 /\ res[p][1].txhash = <<p, attempt[p]>>
                 /\ calls[p].generate_tx = attempt[p]

C4_Witness ==
    \E p \in Procs :
        /\ IsDone(p, "execute_contract")
        /\ outcome[p].ret.err_code = Some(5)
        /\ attempt[p] < n_sending_retries

\* C5: after the confirm phase of an attempt of deploy_contract,
\* instantiate_contract or execute_contract ran out of its budget, the
\* workflow starts no further attempt: the timed-out attempt is its last one.
C5_TimeoutIsNotRetried ==
    \A p \in Procs :
        \A i \in 1..Len(ended[p]) :
            (wf[p] # "send_funds" /\ n_get_response_retries >= 1
             /\ TimedOut(ended[p][i].exc)) =>
                /\ i = Len(ended[p])
                /\ attempt[p] = i
                /\ pc[p] \in {"outer_loop", "done"}

\* C6: a JSON decode failure of the confirmed raw log in attempt i of
\* instantiate_contract does not reach the caller; the failed interval is
\* slept; attempt i + 1 follows while i < n_total_msg_retries; and once the
\* budget is used up BroadcastException is raised.
C6_InstantiateRetriesUnparsableLog ==
    \A p \in Procs :
        \A i \in 1..Len(ended[p]) :
            (wf[p] = "instantiate_contract" /\ ended[p][i].exc.type = "JSONDecodeError") =>
                /\ outcome[p].exc.type # "JSONDecodeError"
                /\ slept_failed[p] >= i
                /\ i < n_total_msg_retries => (attempt[p] > i \/ pc[p] = "outer_loop")
                /\ pc[p] = "done" => Len(ended[p]) > i \/ i = n_total_msg_retries
                /\ (pc[p] = "done" /\ Len(ended[p]) = i) =>
                       outcome[p] = Raised(Exc("BroadcastException",
                                               "Failed to init contract after multiple attempts",
                                               "", "None"))

C6_Witness ==
    \E p \in Procs :
        /\ wf[p] = "instantiate_contract"
        /\ Len(ended[p]) = 2
        /\ ended[p][1].exc.type = "JSONDecodeError"
        /\ ended[p][2].exc = NoExc
        /\ outcome[p].kind = "returned"

\* A confirmed record whose raw log parses and holds no string matching the
\* pattern.
NoMarker(r, re_pattern) ==
    /\ r # None
    /\ r[1].raw_log.t # "bad"
    /\ _find_item(r[1].raw_log, re_pattern) = None

\* The last attempt of p was confirmed with record res[p] and ended with an
\* exception of the given type.
ConfirmedAndFailed(p, type) ==
    /\ Len(ended[p]) >= 1
    /\ ended[p][Len(ended[p])].exc.type = type
    /\ Accepted(ended[p][Len(ended[p])].ack)
    /\ res[p] # None
    /\ res[p][1].txhash = ended[p][Len(ended[p])].ack[1].txhash

\* C7 as stated: in instantiate_contract a parsed log without a
\* contract_address marker is recoverable: with outer budget left the
\* invocation does not end on it.
C7_MissingMarkerIsRetried ==
    \A p \in Procs :
        (/\ wf[p] = "instantiate_contract"
         /\ ConfirmedAndFailed(p, "AssertionError")
         /\ NoMarker(res[p], CONTRACT_ADDRESS_RE)
         /\ Len(ended[p]) < n_total_msg_retries) =>
            pc[p] # "done"

\* C7 as amended: in instantiate_contract a parsed log without a
\* contract_address marker is fatal: the AssertionError reaches the caller on
\* its first occurrence, no failed interval is slept for it and no further
\* attempt is made, whatever outer budget is left.
C7_MissingMarkerIsFatal ==
    \A p \in Procs :
        \A i \in 1..Len(ended[p]) :
            (wf[p] = "instantiate_contract" /\ ended[p][i].exc.type = "AssertionError") =>
                /\ i = Len(ended[p])
                /\ pc[p] = "done"
                /\ outcome[p] = Raised(ended[p][i].exc)
                /\ attempt[p] = i
                /\ calls[p].generate_tx = i
                /\ slept_failed[p] = i - 1
                /\ contract_address[p] = None

C7_Witness ==
    \E p \in Procs :
        /\ wf[p] = "instantiate_contract"
        /\ ConfirmedAndFailed(p, "AssertionError")
        /\ NoMarker(res[p], CONTRACT_ADDRESS_RE)
        /\ Len(ended[p]) < n_total_msg_retries
        /\ pc[p] = "done"

\* C8: in deploy_contract a confirmed raw log that does not parse or holds no
\* code_id marker is fatal: the error reaches the caller on its first
\* occurrence, no further attempt is made and no code id is returned.
C8_DeployMalformedLogIsFatal ==
    \A p \in Procs :
        \A i \in 1..Len(ended[p]) :
            (wf[p] = "deploy_contract"
             /\ ended[p][i].exc.type \in {"JSONDecodeError", "AssertionError"}) =>
                /\ i = Len(ended[p])
                /\ pc[p] = "done"
                /\ outcome[p] = Raised(ended[p][i].exc)
                /\ attempt[p] = i
                /\ calls[p].generate_tx = i
                /\ slept_failed[p] = i - 1
                /\ code_id[p] = None

C8_Witness ==
    \E p \in Procs :
        /\ wf[p] = "deploy_contract"
        /\ ConfirmedAndFailed(p, "JSONDecodeError")
        /\ Len(ended[p]) < n_total_msg_retries
        /\ outcome[p].exc.type = "JSONDecodeError"

\* C9: send_funds enters generate_tx, sign_tx, broadcast_tx and get_tx at most
\* once each and never sleeps the failed interval; when it is done it entered
\* generate_tx exactly once and either returned the confirmed record or
\* raised the very exception that ended its one attempt.
C9_SendFundsSingleAttempt ==
    \A p \in Procs :
        wf[p] = "send_funds" =>
            /\ calls[p].generate_tx <= 1
            /\ calls[p].sign_tx <= 1
            /\ calls[p].broadcast_tx <= 1
            /\ calls[p].get_tx <= 1
            /\ Len(ended[p]) <= 1
            /\ slept_failed[p] = 0
            /\ pc[p] # "outer_loop"
            /\ pc[p] = "done" =>
                 /\ calls[p].generate_tx = 1
                 /\ Len(ended[p]) = 1
                 /\ outcome[p] = IF ended[p][1].exc = NoExc
                                 THEN Returned([NoRet EXCEPT !.res = res[p]])
                                 ELSE Raised(ended[p][1].exc)

C9_Witness ==
    \E p \in Procs :
        /\ IsDone(p, "send_funds")
        /\ Rejected(broad_tx_resp[p])
        /\ n_total_msg_retries >= 2
        /\ outcome[p].kind = "raised"

\* Two send_funds invocations built their transactions from the same
\* sequence number; q's broadcast was accepted and p's was rejected.
LostRace(p, q) ==
    /\ p # q
    /\ wf[p] = "send_funds" /\ wf[q] = "send_funds"
    /\ tx[p] # None /\ tx[q] # None
    /\ tx[p][1].signer_info.sequence = tx[q][1].signer_info.sequence
    /\ Accepted(broad_tx_resp[q])
    /\ Rejected(broad_tx_resp[p])

\* C10 as stated: the loser of the race does not end in an error.
C10_LoserIsRetried ==
    \A p, q \in Procs :
        LostRace(p, q) => outcome[p].kind # "raised"

\* C10 as amended: the loser's rejection reaches its caller as
\* BroadcastException carrying the raw log; send_funds has no outer retry, so
\* the loser neither queries the account again nor rebuilds or resubmits.
C10_LoserRaises ==
    \A p, q \in Procs :
        LostRace(p, q) =>
            /\ pc[p] = "done"
            /\ outcome[p] = Raised(RejectionOf(broad_tx_resp[p]))
            /\ calls[p] = [generate_tx |-> 1, sign_tx |-> 1, broadcast_tx |-> 1, get_tx |-> 0]
            /\ slept_failed[p] = 0
            /\ Len(ended[p]) = 1

C10_Witness ==
    \E p, q \in Procs :
        /\ LostRace(p, q)
        /\ pc[q] = "done"
        /\ outcome[q].kind = "returned"
        /\ n_total_msg_retries >= 2

\* ---------------------------------------------- claims on call_with_retry

Fails(o) == o.kind # "value"
AllFail(h) == \A i \in DOMAIN h : Fails(h[i])
FailsThenSucceeds(h) ==
    /\ Len(h) >= 1
    /\ AllFail(SubSeq(h, 1, Len(h) - 1))
    /\ h[Len(h)].kind = "value"

RECURSIVE LastRaisedType(_)
LastRaisedType(h) ==
    IF h = <<>> THEN "None"
    ELSE IF h[Len(h)].kind = "raise" THEN h[Len(h)].exc.type
    ELSE LastRaisedType(SubSeq(h, 1, Len(h) - 1))

\* C11: with n_retries = N >= 1, a call that fails (raises or returns None)
\* on its first N-1 invocations and returns a response on the N-th makes
\* call_with_retry return that response after exactly N invocations and
\* exactly N-1 sleeps.
C11_FailsThenSucceedsSleepsBetween ==
    (/\ retrier.pc = "done"
     /\ retrier.n_retries >= 1
     /\ Len(retrier.history) = retrier.n_retries
     /\ FailsThenSucceeds(retrier.history))
    => /\ retrier.outcome = Ret("response")
       /\ retrier.called = retrier.n_retries
       /\ retrier.slept = retrier.n_retries - 1

\* C12: with n_retries = K >= 0, a call that fails on every invocation is
\* invoked exactly K times and call_with_retry then raises the configured
\* exception type; no value is returned, and the call is never invoked more
\* than K times.
C12_AlwaysFailingExhaustsBudget ==
    /\ retrier.called <= retrier.n_retries
    /\ (retrier.pc = "call_with_retry" /\ AllFail(retrier.history))
       => retrier.outcome = Pending
    /\ (retrier.pc = "done" /\ AllFail(retrier.history))
       => /\ retrier.outcome.kind = "raised"
          /\ retrier.outcome.exc.type = retrier.exception_type
          /\ retrier.outcome.val = None
          /\ retrier.called = retrier.n_retries
          /\ Len(retrier.history) = retrier.n_retries

C12_Witness ==
    /\ retrier.pc = "done"
    /\ retrier.n_retries = 2
    /\ retrier.called = 2
    /\ retrier.history[1].kind = "none"
    /\ retrier.history[2].kind = "raise"
    /\ retrier.outcome.kind = "raised"
    /\ retrier.outcome.exc.type = "LedgerServerNotAvailable"

\* C13: the error call_with_retry raises on exhaustion has as its cause the
\* exception of the most recent invocation that raised, whatever mix of
\* raising and None-returning invocations came before (no cause if none
\* raised).
C13_ExhaustionCarriesLastCause ==
    (retrier.pc = "done" /\ retrier.outcome.kind = "raised")
    => retrier.outcome.exc.cause = LastRaisedType(retrier.history)

C13_Witness ==
    /\ retrier.pc = "done"
    /\ retrier.outcome.kind = "raised"
    /\ Len(retrier.history) = 2
    /\ retrier.history[1].kind = "raise"
    /\ retrier.history[1].exc.type = "ValueError"
    /\ retrier.history[2].kind = "none"
    /\ retrier.outcome.exc.cause = "ValueError"

\* ------------------------------------------------- claims on the queries

AllRaise(h) == \A i \in DOMAIN h : h[i].kind = "raise"

\* get_balance is done after k raising calls of the client and one that
\* returned a response with the amount "42".
RaisedThenAnswered(k) ==
    /\ query.fn = "get_balance"
    /\ query.pc = "done"
    /\ Len(query.history) = k + 1
    /\ AllRaise(SubSeq(query.history, 1, k))
    /\ query.history[k + 1].kind = "response"
    /\ query.res = Some("42")

\* C14 (scenario C): get_balance whose client raises on its first k calls,
\* k < n_total_msg_retries, and answers call k+1 returns the integer amount of
\* that answer after exactly k+1 calls and exactly k sleeps, all of them of
\* msg_retry_interval.
C14_GetBalanceRetriesThenReturns ==
    \A k \in 0..MaxQueryRetries :
        RaisedThenAnswered(k)
        => /\ k < n_total_msg_retries
           /\ query.outcome = Ret(42)
           /\ query.called = k + 1
           /\ query.slept_retry = k
           /\ query.slept_failed = 0

C14_Witness ==
    /\ RaisedThenAnswered(3)
    /\ query.outcome = Ret(42)
    /\ query.slept_retry = 3

ExhaustionMessages ==
    {"Getting account data failed after multiple attempts",
     "Getting balance failed after multiple attempts",
     "Getting balances failed after multiple attempts",
     "Getting contract state failed after multiple attempts",
     "Failed to deploy contract code after multiple attempts",
     "Failed to init contract after multiple attempts",
     "Failed to execute contract after multiple attempts"}

\* C16: the error that query_account_data, get_balance, get_balances,
\* query_contract_state, deploy_contract, instantiate_contract or
\* execute_contract raises when its budget is exhausted has the last
\* exception of its attempts as its cause.
C16_ExhaustionErrorsAreChained ==
    /\ (/\ query.pc = "done"
        /\ query.outcome.kind = "raised"
        /\ query.outcome.exc.why \in ExhaustionMessages)
       => query.outcome.exc.cause = query.last_exception.type
    /\ \A p \in Procs :
         (/\ pc[p] = "done"
          /\ wf[p] \in {"deploy_contract", "instantiate_contract", "execute_contract"}
          /\ outcome[p].kind = "raised"
          /\ outcome[p].exc.why \in ExhaustionMessages)
         => outcome[p].exc.cause = last_exception[p].type

\* ------------------------------------- claims on refill_wealth_from_faucet

\* C15 as stated: the faucet branch has no attempt cap, so the function
\* leaves an address, and returns, only with the balance seen at the threshold.
C15_RefillUntilThreshold ==
    \A k \in DOMAIN faucet.left : faucet.left[k].reached

\* C15 as the code has it: each address gets at most n_total_msg_retries
\* attempts; the function leaves an address when its balance is seen at the
\* threshold or when that many attempts were made, whichever comes first, and
\* it returns normally (None) after the last address, with no error, whether
\* or not every address reached the threshold.
C15_RefillIsCappedPerAddress ==
    /\ faucet.attempt <= n_total_msg_retries
    /\ \A k \in DOMAIN faucet.left :
         /\ faucet.left[k].attempts <= n_total_msg_retries
         /\ ~faucet.left[k].reached => faucet.left[k].attempts = n_total_msg_retries
    /\ faucet.polled <= Len(faucet.addresses) * n_total_msg_retries
    /\ faucet.pc = "done"
       => /\ faucet.outcome = Ret("None")
          /\ Len(faucet.left) = Len(faucet.addresses)

C15_Witness ==
    /\ faucet.pc = "done"
    /\ n_total_msg_retries = 2
    /\ Len(faucet.left) = 2
    /\ ~faucet.left[1].reached
    /\ faucet.left[1].attempts = 2
    /\ faucet.claimed >= 1
    /\ faucet.outcome = Ret("None")

\* ------------------------------------- claims on precondition failures

LoopingWorkflows == {"deploy_contract", "instantiate_contract", "execute_contract"}

PreconditionFailures ==
    {Exc("RuntimeError", "Getting account number failed", "", "None"),
     Exc("TypeError", "Unexpected account type", "", "None")}

C19_ConstructorNeedsOneNodeAddress ==
    node.pc \in {"constructed", "done"}
    => LET rest == truthy(node.rest_node_address)
           rpc == truthy(node.rpc_node_address)
       IN  /\ (rest <=> rpc)
              => /\ node.pc = "done"
                 /\ node.constructed.kind = "raised"
                 /\ node.constructed.exc.type = "ValueError"
                 /\ node.created = {}
                 /\ node.rest_client = None /\ node.rpc_client = None
                 /\ node.round_trips = 0
                 /\ node.outcome = Pending
           /\ ~(rest <=> rpc)
              => /\ node.constructed = Ret("CosmosLedger")
                 /\ rest => (node.rest_client = node.rest_node_address
                             /\ node.rpc_client = None)
                 /\ rpc => (node.rpc_client = node.rpc_node_address
                            /\ node.rest_client = None)
                 /\ node.created # {}

C19_Witness ==
    /\ node.pc = "done"
    /\ truthy(node.rest_node_address)
    /\ truthy(node.rpc_node_address)
    /\ node.constructed.kind = "raised"
    /\ node.constructed.exc.why = "Only one node type can be specified."
    /\ node.created = {}

\* --------------------------------------------------- claims on generate_tx

\* The transaction generate_tx returned has n signer infos, the i-th made of
\* the i-th address's account and the i-th public key, and the messages of
\* packed_msgs in their order.
BuiltFor(n) ==
    LET t == build.outcome.val[1]
    IN  /\ Len(t.signer_infos) = n
        /\ \A i \in 1..n :
             /\ i <= Len(build.accounts)
             /\ build.accounts[i].address = build.from_addresses[i]
             /\ t.signer_infos[i].sequence = build.accounts[i].sequence
             /\ t.signer_infos[i].public_key = build.pub_keys[i]
        /\ t.messages = build.packed_msgs

Distinct(l) == {l[i] : i \in DOMAIN l}

\* C21 as stated: a transaction generate_tx returns has at least one body
\* message, and one SignerInfo for each distinct address of from_addresses.
C21_NonEmptyAndOneSignerPerDistinctAddress ==
    (build.pc = "done" /\ build.outcome.kind = "returned")
    => /\ Len(build.outcome.val[1].messages) >= 1
       /\ Len(build.outcome.val[1].signer_infos) = Cardinality(Distinct(build.from_addresses))

\* C21 as the code has it: the transaction has the messages it was given, none
\* if it was given none, and one SignerInfo for each pair of
\* zip(from_addresses, pub_keys), an address that is given twice getting two,
\* each after an account query of its own.
C21_MessagesAndSignersAsGiven ==
    (build.pc = "done" /\ build.outcome.kind = "returned")
    => LET t == build.outcome.val[1]
           n == zip_len(build.from_addresses, build.pub_keys)
       IN  /\ Len(t.messages) = Len(build.packed_msgs)
           /\ Len(t.signer_infos) = n
           /\ Len(build.queried) = n
           /\ \A i \in 1..n : build.queried[i] = build.from_addresses[i]

\* No message, and one address given twice.
C21_Witness ==
    /\ build.pc = "done"
    /\ build.outcome.kind = "returned"
    /\ build.packed_msgs = <<>>
    /\ build.from_addresses = <<"addr1", "addr1">>
    /\ Len(build.pub_keys) = 2
    /\ build.outcome.val[1].messages = <<>>
    /\ Len(build.outcome.val[1].signer_infos) = 2

\* The string values of the dicts of obj, each with the dict that holds it,
\* in the order a depth-first walk meets them: list elements and dict
\* entries in their original order, a nested container walked where its
\* entry stands.
RECURSIVE StringValuesFrom(_, _)
StringValuesFrom(obj, i) ==
    IF i > Len(obj.kids) THEN <<>>
    ELSE LET v == obj.kids[i].n
         IN  (IF obj.t = "dict" /\ v.t = "str" THEN <<[dict |-> obj, v |-> v.v]>>
              ELSE StringValuesFrom(v, 1))
             \o StringValuesFrom(obj, i + 1)

RECURSIVE NodesOf(_)
NodesOf(obj) == {obj} \cup UNION {NodesOf(obj.kids[i].n) : i \in DOMAIN obj.kids}

HasMatchingValue(d, re_pattern) ==
    /\ d.t = "dict"
    /\ \E i \in DOMAIN d.kids : d.kids[i].n.t = "str" /\ re_match(re_pattern, d.kids[i].n.v)

FoundItem == applied.pc = "done" /\ applied.fn = "_find_item"

\* C22: over any tree of dicts, lists and scalar leaves, _find_item returns
\* the dict that holds the first string value matching the pattern, in a
\* depth-first walk with list elements and dict entries in their original
\* order (values are matched, never keys), and returns None exactly when no
\* dict of the tree has such a value.
C22_FindItemReturnsFirstMatchInOrder ==
    FoundItem
    => LET vals == StringValuesFrom(applied.obj, 1)
           hits == {i \in DOMAIN vals : re_match(applied.re_pattern, vals[i].v)}
       IN  /\ applied.found =
                 IF hits = {} THEN None
                 ELSE Some(vals[CHOOSE i \in hits : \A j \in hits : i <= j].dict)
           /\ applied.found = None
                 <=> ~\E d \in NodesOf(applied.obj) : HasMatchingValue(d, applied.re_pattern)

\* A dict whose first entry holds a dict with a matching value and whose
\* second entry, under the key "code_id", is a matching value itself: the
\* inner dict is returned.
C22_Witness ==
    /\ FoundItem
    /\ applied.re_pattern = CODE_ID_RE
    /\ applied.obj = Dct(<<KV("key", Dct(<<KV("key", Str("code_id"))>>)),
                           KV("code_id", Str("code_id"))>>)
    /\ applied.found = Some(Dct(<<KV("key", Str("code_id"))>>))

ValidatedAddress == applied.pc = "done" /\ applied.fn = "is_valid_crypto_address"

\* s is a match of the whole prefix pattern.
IsPrefix(prefix, s) ==
    CASE prefix = "[a-z]+" -> s # <<>> /\ \A i \in DOMAIN s : s[i] \in LowerLetters
      [] prefix = "fetch" -> s = <<"f", "e", "t", "c", "h">>
      [] OTHER -> FALSE

\* address is a match of the prefix followed by exactly 39 characters of
\* [0-9a-z] and nothing else.
IsPrefixThenBody(address, prefix) ==
    /\ Len(address) >= AddressBodyLen
    /\ IsPrefix(prefix, SubSeq(address, 1, Len(address) - AddressBodyLen))
    /\ \A i \in (Len(address) - AddressBodyLen + 1)..Len(address) :
           address[i] \in Digits \cup LowerLetters

ContractWorkflows == {"deploy_contract", "instantiate_contract", "execute_contract"}

\* C24: in one invocation of deploy_contract, instantiate_contract or
\* execute_contract at most one broadcast is accepted (acknowledged with code
\* 0): after an attempt whose broadcast was accepted, no later attempt of the
\* invocation gets an acknowledgment for another broadcast.
C24_NoBroadcastAfterAccepted ==
    \A p \in Procs :
        wf[p] \in ContractWorkflows =>
            \A i \in DOMAIN ended[p] :
                Accepted(ended[p][i].ack) =>
                    /\ \A j \in DOMAIN ended[p] : j > i => ended[p][j].ack = None
                    /\ Len(ended[p]) < attempt[p] => broad_tx_resp[p] = None

InAttempt(p) ==
    pc[p] \in {"generate_tx", "sign_tx", "_ensure_accont_number", "broadcast_tx",
               "get_tx", "extract"}

\* C25: within one workflow invocation the phases run in sequence and at most
\* one attempt is in flight: a transaction is being broadcast or confirmed
\* only once the build and the signature of the same attempt have returned
\* (it is that build's transaction, signed, and the acknowledgment confirmed
\* is its own), and an attempt is under way only once every earlier attempt
\* has returned or raised.
C25_PhasesRunInSequence ==
    \A p \in Procs :
        LET n == calls[p]
        IN  /\ n.broadcast_tx <= n.sign_tx
            /\ n.sign_tx <= n.generate_tx
            /\ n.get_tx <= n.broadcast_tx
            /\ n.generate_tx - Len(ended[p]) \in {0, 1}
            /\ InAttempt(p) => Len(ended[p]) = n.generate_tx - 1
            /\ pc[p] \in {"broadcast_tx", "get_tx", "extract"} =>
                   /\ tx[p] # None
                   /\ tx[p][1].signed
                   /\ tx[p][1].hash = <<p, n.generate_tx>>
            /\ pc[p] \in {"get_tx", "extract"} =>
                   /\ Accepted(broad_tx_resp[p])
                   /\ broad_tx_resp[p][1].txhash = tx[p][1].hash

\* The second attempt of deploy_contract is being broadcast after the first
\* one was rejected.
C25_Witness ==
    /\ wf[1] = "deploy_contract"
    /\ pc[1] = "broadcast_tx"
    /\ calls[1].generate_tx = 2
    /\ Len(ended[1]) = 1
    /\ Rejected(ended[1][1].ack)
    /\ tx[1] # None /\ tx[1][1].signed

\* C26: every generate_tx call, those of retried attempts included, queries
\* the node for the signer's account, and the SignerInfo of the transaction
\* it builds carries the sequence that this call's own query returned: a
\* transaction in hand is the current build's, it was built after at least
\* one account query of this build, and its sequence is the queried one.
C26_SequenceFromOwnQuery ==
    \A p \in Procs :
        tx[p] # None =>
            /\ tx[p][1].hash = <<p, calls[p].generate_tx>>
            /\ tx[p][1].signer_info.sequence = tx[p][1].account.sequence
            /\ tx[p][1].account.sequence \in SequenceNumbers
            /\ pc[p] = "sign_tx" => q_attempt[p] >= 1

\* The second attempt of deploy_contract, after a rejected first one, has
\* built its transaction with the sequence 4 its own query returned.
C26_Witness ==
    /\ wf[1] = "deploy_contract"
    /\ pc[1] = "sign_tx"
    /\ calls[1].generate_tx = 2
    /\ Len(ended[1]) = 1
    /\ Rejected(ended[1][1].ack)
    /\ q_attempt[1] >= 1
    /\ tx[1] # None
    /\ tx[1][1].account.sequence = 4
    /\ tx[1][1].signer_info.sequence = 4

\* C27: call_with_retry sleeps after a failed attempt only if attempts
\* remain: a call that raises on all K attempts of a Retrier with
\* n_retries = K >= 1 has caused K - 1 sleeps when the exhaustion error is
\* raised.
C27_NoSleepAfterFinalFailure ==
    (/\ retrier.pc = "done"
     /\ retrier.n_retries >= 1
     /\ Len(retrier.history) = retrier.n_retries
     /\ AllRaise(retrier.history))
    => /\ retrier.outcome.kind = "raised"
       /\ retrier.slept = retrier.n_retries - 1

\* C28: get_tx stops at the first response that is not None, whatever its
\* response code: while it polls, no record of the transaction in hand has
\* come, and the record it returns is the transaction's own, got by the last
\* of at least one poll.  It makes at most n_get_response_retries polls,
\* whatever n_total_msg_retries is, and it raises only once that many polls
\* brought no record.
C28_GetTxStopsAtFirstResponse ==
    \A p \in Procs :
        /\ polls[p] <= n_get_response_retries
        /\ pc[p] = "get_tx" =>
               (res[p] = None \/ res[p][1].txhash # tx[p][1].hash)
        /\ pc[p] = "extract" =>
               /\ res[p] # None
               /\ res[p][1].txhash = tx[p][1].hash
               /\ polls[p] >= 1
        /\ (/\ pc[p] \in {"outer_loop", "done"}
            /\ ended[p] # <<>>
            /\ TimedOut(ended[p][Len(ended[p])].exc))
           => polls[p] = n_get_response_retries

\* The second poll of get_tx, with a budget of two polls and a budget of one
\* broadcast, returned a record with response code 5.
C28_Witness ==
    /\ wf[1] = "execute_contract"
    /\ pc[1] = "extract"
    /\ n_total_msg_retries = 1
    /\ n_get_response_retries = 2
    /\ polls[1] = 2
    /\ res[1] # None
    /\ res[1][1].code = 5

\* C29: deploy_contract and instantiate_contract bound their attempts by a
\* budget of their own, distinct from the one that bounds the broadcast
\* submissions inside one attempt.  The client has two budgets for sending,
\* n_total_msg_retries and n_sending_retries: one of them bounds the
\* attempts and the other one the submissions of an attempt.
C29_OuterAndBroadcastBudgetsDiffer ==
    \A p \in Procs :
        wf[p] \in {"deploy_contract", "instantiate_contract"} =>
            LET submissions == IF pc[p] = "broadcast_tx" THEN r_attempt[p] ELSE 0
            IN  \/ attempt[p] <= n_total_msg_retries /\ submissions <= n_sending_retries
                \/ attempt[p] <= n_sending_retries /\ submissions <= n_total_msg_retries

\* The account number is stored by the step of _ensure_accont_number that
\* got the account, and the transaction is signed with it.
StoresLookedUpNumber ==
    \E p \in Procs :
        /\ pc[p] = "_ensure_accont_number"
        /\ pc'[p] = "broadcast_tx"
        /\ account_number' \in {Some(n) : n \in AccountNumbers}
        /\ tx'[p][1].account_number = account_number'

\* C30: _ensure_accont_number does nothing when the signer's account number
\* is set: the account is looked up for it only while the number is absent,
\* and a number that is set is never changed by a later step of a workflow;
\* when the number is absent it is set by the lookup, to the number the
\* lookup returned.
C30_AccountNumberSetOnceByLookup ==
    /\ [](\A p \in Procs : pc[p] = "_ensure_accont_number" => account_number = None)
    /\ [][/\ account_number # None => account_number' = account_number
          /\ (account_number = None /\ account_number' # None) => StoresLookedUpNumber]_vars

\* The second attempt of deploy_contract signed its transaction with the
\* number the first attempt had stored.
C30_Witness ==
    /\ wf[1] = "deploy_contract"
    /\ pc[1] = "broadcast_tx"
    /\ calls[1].sign_tx = 2
    /\ Rejected(ended[1][1].ack)
    /\ account_number = Some(7)
    /\ tx[1][1].account_number = Some(7)

\* The budget of the workflow's loop: send_funds has none and makes one
\* attempt.
OuterBudget(p) ==
    CASE wf[p] = "execute_contract" -> n_sending_retries
      [] wf[p] = "send_funds" -> 1
      [] OTHER -> n_total_msg_retries

Max(a, b) == IF a >= b THEN a ELSE b

\* The workflow of p has made no more attempts than its budget, no more
\* phase calls than attempts, and in the phase it is in no more network calls
\* than the phase's budget; it has slept the failed interval at most once
\* per attempt.
WorkflowWithinBudgets(p) ==
    /\ attempt[p] <= OuterBudget(p)
    /\ calls[p].generate_tx <= OuterBudget(p)
    /\ calls[p].sign_tx <= calls[p].generate_tx
    /\ calls[p].broadcast_tx <= calls[p].sign_tx
    /\ calls[p].get_tx <= calls[p].broadcast_tx
    /\ q_attempt[p] <= n_total_msg_retries
    /\ pc[p] = "broadcast_tx" => r_attempt[p] <= n_total_msg_retries
    /\ pc[p] = "get_tx" => r_attempt[p] <= n_get_response_retries
    /\ polls[p] <= n_get_response_retries
    /\ slept_failed[p] <= Max(attempt[p], Len(ended[p]))
    /\ Len(ended[p]) <= OuterBudget(p)

\* The stand-alone operations have made no more network calls than their
\* budgets allow, and at most one sleep per call.
CallsWithinBudgets ==
    /\ retrier.called <= retrier.n_retries
    /\ retrier.slept <= retrier.called
    /\ query.called <= (IF query.n_retries = None THEN n_total_msg_retries
                        ELSE query.n_retries[1])
    /\ query.slept_retry + query.slept_failed <= query.called
    /\ faucet.polled <= Len(faucet.addresses) * n_total_msg_retries
    /\ faucet.claimed <= faucet.polled
    /\ faucet.slept_faucet <= faucet.polled
    /\ node.round_trips <= 1
    /\ Len(build.queried) <= zip_len(build.from_addresses, build.pub_keys)

\* Every invocation has returned or raised.
Terminated ==
    /\ \A p \in Procs : pc[p] \in {"idle", "done"}
    /\ \A f \in {retrier.pc, query.pc, faucet.pc, node.pc, build.pc, applied.pc} :
           f \in {"idle", "done"}

\* C31: with finite budgets, and a node each call to which returns a
\* response, returns nothing or raises, every invocation of a workflow, of a
\* query, of the faucet refill and of check_availability eventually returns
\* or raises, having made a number of network calls and of sleeps that its
\* budgets bound.
C31_TerminatesWithinBudgets ==
    /\ [](CallsWithinBudgets /\ \A p \in Procs : WorkflowWithinBudgets(p))
    /\ <>[]Terminated

\* The faucet refill of two addresses returned after every attempt its budget
\* of two per address allows, each with a request to the faucet and a sleep.
C31_Witness ==
    /\ faucet.pc = "done"
    /\ n_total_msg_retries = 2
    /\ Len(faucet.addresses) = 2
    /\ faucet.polled = 4
    /\ faucet.slept_faucet = 4
    /\ faucet.outcome.kind = "returned"

====
